---------------------------- MODULE Spec2Model ----------------------------
(***************************************************************************)
(* A model of src/app.js: the air-quality comparison page.                 *)
(*                                                                         *)
(* Encoding of JavaScript values.  A value that may be null/undefined is a *)
(* set with at most one element: NULL is {} and a present value v is {v}.  *)
(* Numbers served by the upstream API are integers; a mean computed by     *)
(* average() is an exact fraction [n, d] in lowest terms.  Coordinates     *)
(* are degrees times 10^4 (the source gives four decimals).                *)
(***************************************************************************)
EXTENDS Integers, Sequences, FiniteSets, TLC

\* ------------------------------------------------------------------ values

NULL == {}

Some(v) == {v}

Val(x) == CHOOSE v \in x : TRUE

\* JavaScript truthiness of a nullable number: null, undefined and 0 are falsy.
Truthy(x) == x # NULL /\ Val(x) # 0

\* Degrees to the model's coordinate unit.
Deg(d) == d * 10000

\* src/app.js:10-11
HISTORICAL_YEAR == 2023

FALLBACK_YEAR == 2013

\* The keys of a Reading, in the order fetchAirQuality inserts them
\* (src/app.js:805-819): eight numeric fields, then dataSource.
NumericFields ==
    << "pm25", "pm10", "carbon_monoxide", "nitrogen_dioxide", "ozone",
       "sulphur_dioxide", "european_aqi", "us_aqi" >>

\* The upstream key each Reading field is read from.
ApiKey(f) == IF f = "pm25" THEN "pm2_5" ELSE f

FieldSet == { NumericFields[i] : i \in DOMAIN NumericFields }

\* obj[key] of a JavaScript object: undefined (nullish) when the key is absent.
Get(obj, key) == IF key \in DOMAIN obj THEN obj[key] ELSE NULL

\* arr[i] of a JavaScript array (0-based): undefined when out of range.
At(arr, i) == IF (i + 1) \in DOMAIN arr THEN arr[i + 1] ELSE NULL

\* ------------------------------------------------------- inferDataSource

\* A slip: the station annotation is consulted only outside the Europe box.
inferDataSourceMutant(latitude, longitude, apiResponse) ==
    LET isEurope == /\ latitude >= Deg(35) /\ latitude <= Deg(71)
                    /\ longitude >= Deg(-10) /\ longitude <= Deg(40)
        isUS == \/ /\ latitude >= Deg(18) /\ latitude <= Deg(72)
                   /\ longitude >= Deg(-180) /\ longitude <= Deg(-66)
                \/ /\ latitude >= Deg(18) /\ latitude <= Deg(22)
                   /\ longitude >= Deg(-161) /\ longitude <= Deg(-154)
        isCanada == /\ latitude >= Deg(41) /\ latitude <= Deg(84)
                    /\ longitude >= Deg(-141) /\ longitude <= Deg(-52)
        isMexico == /\ latitude >= Deg(14) /\ latitude <= Deg(33)
                    /\ longitude >= Deg(-118) /\ longitude <= Deg(-86)
    IN  IF isEurope
        THEN "CAMS European Air Quality Reanalysis"
        ELSE IF apiResponse.station # ""
        THEN apiResponse.station
        ELSE IF isUS \/ isCanada \/ isMexico
             THEN "CAMS Global (may include NOAA/Environment Canada ground stations)"
             ELSE "CAMS Global Reanalysis"

\* apiResponse.metadata.station, "" when the payload carries none (both falsy).
inferDataSource(latitude, longitude, apiResponse) ==
    IF apiResponse.station # ""
    THEN apiResponse.station
    ELSE LET isEurope == /\ latitude >= Deg(35) /\ latitude <= Deg(71)
                         /\ longitude >= Deg(-10) /\ longitude <= Deg(40)
             isUS == \/ /\ latitude >= Deg(18) /\ latitude <= Deg(72)
                        /\ longitude >= Deg(-180) /\ longitude <= Deg(-66)
                     \/ /\ latitude >= Deg(18) /\ latitude <= Deg(22)
                        /\ longitude >= Deg(-161) /\ longitude <= Deg(-154)
             isCanada == /\ latitude >= Deg(41) /\ latitude <= Deg(84)
                         /\ longitude >= Deg(-141) /\ longitude <= Deg(-52)
             isMexico == /\ latitude >= Deg(14) /\ latitude <= Deg(33)
                         /\ longitude >= Deg(-118) /\ longitude <= Deg(-86)
         IN  IF isEurope
             THEN "CAMS European Air Quality Reanalysis"
             ELSE IF isUS \/ isCanada \/ isMexico
                  THEN "CAMS Global (may include NOAA/Environment Canada ground stations)"
                  ELSE "CAMS Global Reanalysis"

\* ------------------------------------------------------- fetchAirQuality

(***************************************************************************)
(* An upstream response: net = FALSE when fetch() itself rejects, ok is    *)
(* response.ok, data the parsed JSON: current is NULL or Some(object),     *)
(* hourly is NULL or Some(object whose "time" and series are arrays).      *)
(***************************************************************************)
NoUsableData(data) ==
    /\ (data.current = NULL \/ DOMAIN Val(data.current) = {})
    /\ \/ data.hourly = NULL
       \/ "time" \notin DOMAIN Val(data.hourly)
       \/ Len(Val(data.hourly)["time"]) = 0

\* A slip: the last hour is taken in both modes.
latestIndexMutant(data, mode) ==
    IF data.hourly # NULL /\ "time" \in DOMAIN Val(data.hourly)
       /\ Len(Val(data.hourly)["time"]) > 0
    THEN Len(Val(data.hourly)["time"]) - 1
    ELSE 0

latestIndex(data, mode) ==
    IF data.hourly # NULL /\ "time" \in DOMAIN Val(data.hourly)
       /\ Len(Val(data.hourly)["time"]) > 0
    THEN IF mode = "historical" THEN 0 ELSE Len(Val(data.hourly)["time"]) - 1
    ELSE 0

\* data.current?.k ?? data.hourly?.k?.[latestIndex] ?? null
ExtractField(data, mode, k) ==
    LET c == IF data.current # NULL THEN Get(Val(data.current), k) ELSE NULL
        h == IF data.hourly # NULL /\ k \in DOMAIN Val(data.hourly)
             THEN At(Val(data.hourly)[k], latestIndex(data, mode))
             ELSE NULL
    IN  IF c # NULL THEN c ELSE h

AllNullReading(dataSource) ==
    [ pm25 |-> NULL, pm10 |-> NULL, carbon_monoxide |-> NULL,
      nitrogen_dioxide |-> NULL, ozone |-> NULL, sulphur_dioxide |-> NULL,
      european_aqi |-> NULL, us_aqi |-> NULL, dataSource |-> dataSource ]

ParsedReading(data, mode, dataSource) ==
    [ pm25 |-> ExtractField(data, mode, "pm2_5"),
      pm10 |-> ExtractField(data, mode, "pm10"),
      carbon_monoxide |-> ExtractField(data, mode, "carbon_monoxide"),
      nitrogen_dioxide |-> ExtractField(data, mode, "nitrogen_dioxide"),
      ozone |-> ExtractField(data, mode, "ozone"),
      sulphur_dioxide |-> ExtractField(data, mode, "sulphur_dioxide"),
      european_aqi |-> ExtractField(data, mode, "european_aqi"),
      us_aqi |-> ExtractField(data, mode, "us_aqi"),
      dataSource |-> dataSource ]

Threw(message) == [ threw |-> TRUE, message |-> message, value |-> NULL ]

Returned(v) == [ threw |-> FALSE, message |-> "", value |-> Some(v) ]

\* What the no-usable-data branch does in historical mode (src/app.js:783-793).
NoDataHistoricalMutant(latitude, longitude, data) ==
    Threw("No air quality data available")

NoDataHistorical(latitude, longitude, data) ==
    Returned(AllNullReading(inferDataSource(latitude, longitude, data)))

\* What the no-usable-data branch does in current mode (src/app.js:794).
NoDataCurrentMutant(latitude, longitude, data) ==
    Returned(AllNullReading(inferDataSource(latitude, longitude, data)))

NoDataCurrent(latitude, longitude, data) ==
    Threw("No air quality data available")

\* A slip: a non-success status of a historical request is treated as "no data".
HttpFailureMutant(latitude, longitude, mode, resp) ==
    IF mode = "historical"
    THEN Returned(AllNullReading(inferDataSource(latitude, longitude, resp.data)))
    ELSE Threw("API request failed")

\* if (!response.ok) throw new Error(`API request failed: ${response.status}`),
\* src/app.js:766-768: the body is not read.
HttpFailure(latitude, longitude, mode, resp) == Threw("API request failed")

\* The outcome of fetchAirQuality(latitude, longitude, mode, year) when the
\* upstream answers resp: a thrown error or a returned Reading.
fetchAirQuality(latitude, longitude, mode, resp) ==
    IF ~resp.net
    THEN Threw("Failed to fetch")
    ELSE IF ~resp.ok
    THEN HttpFailure(latitude, longitude, mode, resp)
    ELSE IF NoUsableData(resp.data)
    THEN IF mode = "historical"
         THEN NoDataHistorical(latitude, longitude, resp.data)
         ELSE NoDataCurrent(latitude, longitude, resp.data)
    ELSE Returned(ParsedReading(resp.data, mode,
                                inferDataSource(latitude, longitude, resp.data)))

\* ------------------------------------------------------------ SampleTable

Loc(lat, lon) == [ lat |-> lat, lon |-> lon ]

\* The keys of countrySamples (src/app.js:311-716), in the table's order.
countrySampleNames ==
    << "United States", "Canada", "Mexico", "United Kingdom", "Germany",
       "France", "Italy", "Spain", "Netherlands", "Belgium", "Switzerland",
       "Austria", "Poland", "Sweden", "Norway", "Denmark", "Finland",
       "Portugal", "Greece", "Russia", "Turkey", "China", "India", "Japan",
       "South Korea", "Indonesia", "Thailand", "Vietnam", "Philippines",
       "Malaysia", "Singapore", "Taiwan", "Pakistan", "Bangladesh",
       "Saudi Arabia", "United Arab Emirates", "Israel", "Australia",
       "New Zealand", "Brazil", "Argentina", "Chile", "Colombia", "Peru",
       "Venezuela", "South Africa", "Egypt", "Nigeria", "Kenya", "Morocco",
       "Iran", "Iraq", "Ukraine", "Czech Republic", "Romania", "Hungary",
       "Ireland" >>

\* countrySamples (src/app.js:311-716): the sample locations of every key.
countrySamples ==
    [ c \in { countrySampleNames[i] : i \in DOMAIN countrySampleNames } |->
        CASE c = "United States" ->
               << Loc(407128, -740060), Loc(340522, -1182437),
                  Loc(418781, -876298), Loc(297604, -953698),
                  Loc(389072, -770369) >>
          [] c = "Canada" ->
               << Loc(436532, -793832), Loc(455017, -735673),
                  Loc(492827, -1231207), Loc(510447, -1140719),
                  Loc(454247, -756950) >>
          [] c = "Mexico" ->
               << Loc(194326, -991332), Loc(206597, -1033496),
                  Loc(256866, -1003161), Loc(190414, -982063),
                  Loc(211619, -868515) >>
          [] c = "United Kingdom" ->
               << Loc(515074, -1278), Loc(534808, -22426),
                  Loc(559533, -31883), Loc(524862, -18904),
                  Loc(538008, -15491) >>
          [] c = "Germany" ->
               << Loc(525200, 134050), Loc(481351, 115820),
                  Loc(509375, 69603), Loc(535511, 99937), Loc(512277, 67735) >>
          [] c = "France" ->
               << Loc(488566, 23522), Loc(457640, 48357), Loc(432965, 53698),
                  Loc(448378, -5792), Loc(437102, 72620) >>
          [] c = "Italy" ->
               << Loc(419028, 124964), Loc(454642, 91900),
                  Loc(408518, 142681), Loc(450703, 76869),
                  Loc(437696, 112558) >>
          [] c = "Spain" ->
               << Loc(404168, -37038), Loc(413851, 21734),
                  Loc(373891, -59845), Loc(394699, -3763),
                  Loc(432627, -29253) >>
          [] c = "Netherlands" ->
               << Loc(523676, 49041), Loc(519225, 44772), Loc(520907, 51214),
                  Loc(523792, 49003), Loc(514416, 54697) >>
          [] c = "Belgium" ->
               << Loc(508503, 43517), Loc(512194, 44025), Loc(510543, 37174),
                  Loc(506403, 55714), Loc(508503, 43488) >>
          [] c = "Switzerland" ->
               << Loc(473769, 85417), Loc(462044, 61432), Loc(465197, 66323),
                  Loc(475596, 75886), Loc(469481, 74474) >>
          [] c = "Austria" ->
               << Loc(482082, 163738), Loc(470707, 154395),
                  Loc(472692, 114041), Loc(478095, 130550),
                  Loc(483069, 142858) >>
          [] c = "Poland" ->
               << Loc(522297, 210122), Loc(500647, 199450),
                  Loc(511079, 170385), Loc(543520, 186466),
                  Loc(512465, 225684) >>
          [] c = "Sweden" ->
               << Loc(593293, 180686), Loc(577089, 119746),
                  Loc(556059, 130007), Loc(598586, 176389),
                  Loc(638258, 202630) >>
          [] c = "Norway" ->
               << Loc(599139, 107522), Loc(603913, 53221),
                  Loc(634305, 103951), Loc(589700, 57331),
                  Loc(696492, 189553) >>
          [] c = "Denmark" ->
               << Loc(556761, 125683), Loc(561567, 102039),
                  Loc(554038, 104024), Loc(554703, 95350),
                  Loc(554857, 84520) >>
          [] c = "Finland" ->
               << Loc(601699, 249384), Loc(614981, 237610),
                  Loc(604518, 222666), Loc(650121, 254651),
                  Loc(622415, 257209) >>
          [] c = "Portugal" ->
               << Loc(387223, -91393), Loc(411579, -86291),
                  Loc(385667, -79000), Loc(406405, -86538),
                  Loc(370194, -79322) >>
          [] c = "Greece" ->
               << Loc(379838, 237275), Loc(406401, 229444),
                  Loc(353080, 250775), Loc(382466, 217346),
                  Loc(379334, 239434) >>
          [] c = "Russia" ->
               << Loc(557558, 376173), Loc(599343, 303351),
                  Loc(563269, 440075), Loc(550084, 829357),
                  Loc(568431, 606454) >>
          [] c = "Turkey" ->
               << Loc(410082, 289784), Loc(399334, 328597),
                  Loc(384237, 271428), Loc(368969, 307133),
                  Loc(370662, 373833) >>
          [] c = "China" ->
               << Loc(399042, 1164074), Loc(312304, 1214737),
                  Loc(231291, 1132644), Loc(305728, 1040668),
                  Loc(343416, 1089398) >>
          [] c = "India" ->
               << Loc(286139, 772090), Loc(190760, 728777),
                  Loc(130827, 802707), Loc(129716, 775946),
                  Loc(225726, 883639) >>
          [] c = "Japan" ->
               << Loc(356762, 1396503), Loc(346937, 1355023),
                  Loc(350116, 1357681), Loc(351815, 1369066),
                  Loc(430642, 1413469) >>
          [] c = "South Korea" ->
               << Loc(375665, 1269780), Loc(351796, 1290756),
                  Loc(355384, 1293114), Loc(374563, 1267052),
                  Loc(358714, 1286014) >>
          [] c = "Indonesia" ->
               << Loc(-62088, 1068456), Loc(-69175, 1076191),
                  Loc(-72575, 1127521), Loc(-62000, 1068167),
                  Loc(-51477, 1194327) >>
          [] c = "Thailand" ->
               << Loc(137563, 1005018), Loc(187883, 989853),
                  Loc(78804, 983923), Loc(129236, 1008825),
                  Loc(134125, 1038670) >>
          [] c = "Vietnam" ->
               << Loc(108231, 1066297), Loc(210285, 1058542),
                  Loc(160544, 1082022), Loc(100452, 1057469),
                  Loc(208449, 1066881) >>
          [] c = "Philippines" ->
               << Loc(145995, 1209842), Loc(103157, 1238854),
                  Loc(71907, 1254553), Loc(145547, 1210244),
                  Loc(164023, 1205960) >>
          [] c = "Malaysia" ->
               << Loc(31390, 1016869), Loc(59804, 1160735),
                  Loc(14927, 1037414), Loc(42105, 1019758),
                  Loc(54164, 1003327) >>
          [] c = "Singapore" ->
               << Loc(13521, 1038198) >>
          [] c = "Taiwan" ->
               << Loc(250330, 1215654), Loc(226273, 1203014),
                  Loc(241477, 1206736), Loc(248036, 1209686),
                  Loc(239739, 1216014) >>
          [] c = "Pakistan" ->
               << Loc(248607, 670011), Loc(315497, 743436),
                  Loc(336844, 730479), Loc(314504, 731350),
                  Loc(340151, 715249) >>
          [] c = "Bangladesh" ->
               << Loc(238103, 904125), Loc(223569, 917832),
                  Loc(243745, 886042), Loc(231707, 892093),
                  Loc(247471, 904203) >>
          [] c = "Saudi Arabia" ->
               << Loc(247136, 466753), Loc(214858, 391925),
                  Loc(264207, 500888), Loc(244672, 396142),
                  Loc(213891, 398579) >>
          [] c = "United Arab Emirates" ->
               << Loc(252048, 552708), Loc(244539, 543773),
                  Loc(253573, 554033), Loc(250657, 551713),
                  Loc(257889, 559590) >>
          [] c = "Israel" ->
               << Loc(317683, 352137), Loc(320853, 347818),
                  Loc(327940, 349896), Loc(312622, 348018),
                  Loc(320809, 347806) >>
          [] c = "Australia" ->
               << Loc(-338688, 1512093), Loc(-378136, 1449631),
                  Loc(-274698, 1530251), Loc(-319505, 1158605),
                  Loc(-349285, 1386007) >>
          [] c = "New Zealand" ->
               << Loc(-368485, 1747633), Loc(-412865, 1747762),
                  Loc(-435321, 1726362), Loc(-458741, 1705036),
                  Loc(-377870, 1752793) >>
          [] c = "Brazil" ->
               << Loc(-235505, -466333), Loc(-229068, -431729),
                  Loc(-157942, -478822), Loc(-129714, -385014),
                  Loc(-199167, -439345) >>
          [] c = "Argentina" ->
               << Loc(-346037, -583816), Loc(-314201, -641888),
                  Loc(-329442, -606505), Loc(-247859, -654117),
                  Loc(-268083, -652176) >>
          [] c = "Chile" ->
               << Loc(-334489, -706693), Loc(-368201, -730444),
                  Loc(-235505, -704000), Loc(-330472, -716127),
                  Loc(-366067, -721034) >>
          [] c = "Colombia" ->
               << Loc(47110, -740721), Loc(62476, -755658),
                  Loc(34516, -765320), Loc(109639, -747964),
                  Loc(46097, -740817) >>
          [] c = "Peru" ->
               << Loc(-120464, -770428), Loc(-164090, -715375),
                  Loc(-131631, -742246), Loc(-81116, -790288),
                  Loc(-68699, -791306) >>
          [] c = "Venezuela" ->
               << Loc(104806, -669036), Loc(101621, -680077),
                  Loc(83533, -626410), Loc(106316, -716406),
                  Loc(103050, -676042) >>
          [] c = "South Africa" ->
               << Loc(-262041, 280473), Loc(-339249, 184241),
                  Loc(-298587, 310218), Loc(-257479, 282293),
                  Loc(-261076, 280567) >>
          [] c = "Egypt" ->
               << Loc(300444, 312357), Loc(312001, 299187),
                  Loc(268206, 308025), Loc(305852, 315013),
                  Loc(310409, 313785) >>
          [] c = "Nigeria" ->
               << Loc(65244, 33792), Loc(90765, 73986), Loc(64541, 33947),
                  Loc(48156, 70498), Loc(105105, 74165) >>
          [] c = "Kenya" ->
               << Loc(-12921, 368219), Loc(-3031, 360800),
                  Loc(-40435, 396682), Loc(5167, 352833),
                  Loc(-10333, 370694) >>
          [] c = "Morocco" ->
               << Loc(335731, -75898), Loc(340209, -68416),
                  Loc(316295, -79811), Loc(338869, -55400),
                  Loc(357596, -58340) >>
          [] c = "Iran" ->
               << Loc(356892, 513890), Loc(326546, 516680),
                  Loc(295926, 525836), Loc(361911, 440092),
                  Loc(357000, 514167) >>
          [] c = "Iraq" ->
               << Loc(333152, 443661), Loc(361911, 440092),
                  Loc(310456, 462667), Loc(363378, 431181),
                  Loc(332232, 436793) >>
          [] c = "Ukraine" ->
               << Loc(504501, 305234), Loc(499935, 362304),
                  Loc(464825, 307233), Loc(484647, 350462),
                  Loc(498397, 240297) >>
          [] c = "Czech Republic" ->
               << Loc(500755, 144378), Loc(491951, 166068),
                  Loc(497475, 133776), Loc(498206, 182625),
                  Loc(507663, 150543) >>
          [] c = "Romania" ->
               << Loc(444268, 261025), Loc(467712, 236236),
                  Loc(457489, 212087), Loc(471585, 276014),
                  Loc(443302, 237949) >>
          [] c = "Hungary" ->
               << Loc(474979, 190402), Loc(475316, 216273),
                  Loc(462530, 201414), Loc(476875, 165904),
                  Loc(469067, 196897) >>
          [] c = "Ireland" ->
               << Loc(533498, -62603), Loc(518985, -84756),
                  Loc(532707, -90568), Loc(522680, -96969),
                  Loc(534129, -82439) >> ]

\* countryNameVariations (src/app.js:720-729)
countryNameVariations ==
    [ a \in { "USA", "US", "UK", "UAE", "Czechia", "South Korea", "Korea",
              "Republic of Korea" } |->
        CASE a \in { "USA", "US" } -> "United States"
          [] a = "UK" -> "United Kingdom"
          [] a = "UAE" -> "United Arab Emirates"
          [] a = "Czechia" -> "Czech Republic"
          [] OTHER -> "South Korea" ]

\* A slip: the last location of an entry is dropped.
TableEntryMutant(key) ==
    IF key \in DOMAIN countrySamples
    THEN Some(SubSeq(countrySamples[key], 1, Len(countrySamples[key]) - 1))
    ELSE NULL

\* countrySamples[key]: undefined for a key the table does not hold.
TableEntry(key) ==
    IF key \in DOMAIN countrySamples THEN Some(countrySamples[key]) ELSE NULL

\* A slip: the country code is tried first.
getCountrySampleLocationsMutant(countryName, countryCode) ==
    LET normalizedName == IF countryName \in DOMAIN countryNameVariations
                          THEN countryNameVariations[countryName]
                          ELSE countryName
    IN  IF TableEntry(countryCode) # NULL THEN TableEntry(countryCode)
        ELSE IF TableEntry(normalizedName) # NULL THEN TableEntry(normalizedName)
        ELSE TableEntry(countryName)

getCountrySampleLocations(countryName, countryCode) ==
    LET normalizedName == IF countryName \in DOMAIN countryNameVariations
                          THEN countryNameVariations[countryName]
                          ELSE countryName
    IN  IF TableEntry(normalizedName) # NULL THEN TableEntry(normalizedName)
        ELSE IF TableEntry(countryName) # NULL THEN TableEntry(countryName)
        ELSE TableEntry(countryCode)

\* ---------------------------------------------------------------- average

RECURSIVE GCD(_, _)
GCD(a, b) == IF b = 0 THEN a ELSE GCD(b, a % b)

Abs(x) == IF x < 0 THEN -x ELSE x

\* The exact quotient n / d (d > 0) in lowest terms.
Quot(n, d) ==
    LET g == GCD(Abs(n), d)
    IN  IF g = 0 THEN [ n |-> 0, d |-> 1 ] ELSE [ n |-> n \div g, d |-> d \div g ]

RECURSIVE SumSeq(_)
SumSeq(values) ==
    IF Len(values) = 0 THEN 0 ELSE Val(Head(values)) + SumSeq(Tail(values))

\* A plausible slip: divide by a fixed sample count instead of values.length.
averageMutant(values) ==
    IF Len(values) = 0 THEN NULL ELSE Some(Quot(SumSeq(values), Len(values) + 1))

\* average(values), src/app.js:303-307
average(values) ==
    IF Len(values) = 0 THEN NULL ELSE Some(Quot(SumSeq(values), Len(values)))

\* samples.map(s => s[f]).filter(v => v !== null)
NonNullValues(samples, f) ==
    SelectSeq([ i \in DOMAIN samples |-> samples[i][f] ], LAMBDA v : v # NULL)

\* The aggregate of one sample set (src/app.js:271-281 and 284-294).
Aggregate(samples) ==
    IF Len(samples) > 0
    THEN Some([ pm25 |-> average(NonNullValues(samples, "pm25")),
                pm10 |-> average(NonNullValues(samples, "pm10")),
                carbon_monoxide |-> average(NonNullValues(samples, "carbon_monoxide")),
                nitrogen_dioxide |-> average(NonNullValues(samples, "nitrogen_dioxide")),
                ozone |-> average(NonNullValues(samples, "ozone")),
                sulphur_dioxide |-> average(NonNullValues(samples, "sulphur_dioxide")),
                us_aqi |-> average(NonNullValues(samples, "us_aqi")),
                european_aqi |-> average(NonNullValues(samples, "european_aqi")),
                dataSource |-> IF samples[1].dataSource # ""
                               THEN samples[1].dataSource ELSE "Unknown" ])
    ELSE NULL

\* ----------------------------------------------------- getNationalAverage

\* slice(0, 5), src/app.js:248
SampleLimit == 5

Min(a, b) == IF a < b THEN a ELSE b

\* A fetch event of a request's log: a fetch issued or completed.
FetchEvent(ev, mode, year) == [ ev |-> ev, mode |-> mode, year |-> year ]

\* The activation record of one getNationalAverage call.  pc is "idle" before
\* the call, "awaitCurrent" / "awaitHistorical" / "awaitFallback" while a
\* sample fetch is pending, "resolved" or "rejected" once the promise settled.
\* locs is sampleLocations.slice(0, 5) and i the position of the loop in it
\* (the sample locations 1..i have had their current fetch issued).  Two
\* fields record the past: last is the fetch that completed last (kind is
\* "current", "primary" or "fallback") with its outcome, and caught counts the
\* errors the catch block has handled.
NoFetch == [ kind |-> "", res |-> Threw("") ]

NatIdle ==
    [ pc |-> "idle", countryInfo |-> NULL, historicalYear |-> 0,
      locs |-> << >>, i |-> 0,
      currentSamples |-> << >>, historicalSamples |-> << >>,
      result |-> NULL, last |-> NoFetch, caught |-> 0 ]

\* if (aq && (aq.us_aqi || aq.european_aqi || aq.pm25 !== null))
SampleIncluded(aq) ==
    Truthy(aq.us_aqi) \/ Truthy(aq.european_aqi) \/ aq.pm25 # NULL

\* Object.values(historicalAQ).filter((v, k) => k !== 'dataSource')
\*     .every(v => v === null)
\* The filter's second argument k is the array index 0..8, which is never
\* the string 'dataSource', so all nine values are kept; the ninth is the
\* dataSource string, which is not null.
SampleAllNull(aq) ==
    \A k \in 0 .. Len(NumericFields) :
        LET kept == TRUE
            isNull == IF k < Len(NumericFields)
                      THEN aq[NumericFields[k + 1]] = NULL
                      ELSE FALSE
        IN  kept => isNull

\* return { current: currentAvg, historical: historicalAvg }
NatFinish(n) ==
    [ n EXCEPT !.pc = "resolved",
               !.result = Some([ current |-> Aggregate(n.currentSamples),
                                 historical |-> Aggregate(n.historicalSamples) ]) ]

\* A slip: the loop leaves one location early.
NatNextSampleMutant(n) ==
    IF n.i + 1 > Len(n.locs) - 1
    THEN NatFinish(n)
    ELSE [ n EXCEPT !.pc = "awaitCurrent", !.i = n.i + 1 ]

\* The next iteration of the for loop: issue the current fetch of the next
\* sample location, or leave the loop.
NatNextSample(n) ==
    IF n.i + 1 > Len(n.locs)
    THEN NatFinish(n)
    ELSE [ n EXCEPT !.pc = "awaitCurrent", !.i = n.i + 1 ]

\* A slip: no try/catch around the sample, the error rejects the promise.
NatCatchMutant(n) == [ n EXCEPT !.pc = "rejected" ]

\* catch (error) { console.warn(...) }, src/app.js:265-267
NatCatch(n) == NatNextSample([ n EXCEPT !.caught = n.caught + 1 ])

\* The fetch of the given kind completed with outcome res.
NatDone(n, kind, res) == [ n EXCEPT !.last = [ kind |-> kind, res |-> res ] ]

\* A slip: the current fetch has a handler of its own, and the historical
\* fetch of the location is issued after a failed current fetch.
NatAfterCurrentMutant(n, res) ==
    IF res.threw
    THEN [ n EXCEPT !.caught = n.caught + 1, !.pc = "awaitHistorical" ]
    ELSE LET currentAQ == Val(res.value)
             m == IF SampleIncluded(currentAQ)
                  THEN [ n EXCEPT !.currentSamples = Append(n.currentSamples, currentAQ) ]
                  ELSE n
         IN  [ m EXCEPT !.pc = "awaitHistorical" ]

\* src/app.js:251-257
NatAfterCurrent(n, res) ==
    IF res.threw
    THEN NatCatch(n)
    ELSE LET currentAQ == Val(res.value)
             m == IF SampleIncluded(currentAQ)
                  THEN [ n EXCEPT !.currentSamples = Append(n.currentSamples, currentAQ) ]
                  ELSE n
         IN  [ m EXCEPT !.pc = "awaitHistorical" ]

\* src/app.js:262-264
NatPushHistorical(n, historicalAQ) ==
    NatNextSample(IF SampleIncluded(historicalAQ)
                  THEN [ n EXCEPT !.historicalSamples =
                                      Append(n.historicalSamples, historicalAQ) ]
                  ELSE n)

\* src/app.js:257-261
NatAfterHistorical(n, res) ==
    IF res.threw
    THEN NatCatch(n)
    ELSE IF SampleAllNull(Val(res.value))
         THEN [ n EXCEPT !.pc = "awaitFallback" ]
         ELSE NatPushHistorical(n, Val(res.value))

\* src/app.js:260-264
NatAfterFallback(n, res) ==
    IF res.threw THEN NatCatch(n) ELSE NatPushHistorical(n, Val(res.value))

\* A pending sample fetch completes with the upstream response resp and the
\* function runs on to its next await or to its return.
NatResume(n, resp) ==
    LET loc == n.locs[n.i]
        cur == fetchAirQuality(loc.lat, loc.lon, "current", resp)
        hist == fetchAirQuality(loc.lat, loc.lon, "historical", resp)
    IN  CASE n.pc = "awaitCurrent" ->
               NatAfterCurrent(NatDone(n, "current", cur), cur)
          [] n.pc = "awaitHistorical" ->
               NatAfterHistorical(NatDone(n, "primary", hist), hist)
          [] n.pc = "awaitFallback" ->
               NatAfterFallback(NatDone(n, "fallback", hist), hist)

\* A slip: a country the table does not hold falls back to a default entry.
NatLookupMutant(countryInfo) ==
    IF countryInfo = NULL \/ Val(countryInfo).name = ""
    THEN NULL
    ELSE LET sampleLocations ==
                 getCountrySampleLocations(Val(countryInfo).name, Val(countryInfo).code)
         IN  IF sampleLocations = NULL
             THEN Some(countrySamples["Singapore"])
             ELSE sampleLocations

\* sampleLocations as the guards of src/app.js:231-242 leave it: NULL when
\* the function returns null before the loop.
NatLookup(countryInfo) ==
    IF countryInfo = NULL \/ Val(countryInfo).name = ""
    THEN NULL
    ELSE LET sampleLocations ==
                 getCountrySampleLocations(Val(countryInfo).name, Val(countryInfo).code)
         IN  IF sampleLocations = NULL \/ Len(Val(sampleLocations)) = 0
             THEN NULL
             ELSE sampleLocations

\* The call getNationalAverage(countryInfo, historicalYear), run to its first
\* await or to its early return.
getNationalAverage(countryInfo, historicalYear) ==
    IF NatLookup(countryInfo) = NULL
    THEN [ NatIdle EXCEPT !.pc = "resolved", !.countryInfo = countryInfo,
                          !.historicalYear = historicalYear ]
    ELSE LET all == Val(NatLookup(countryInfo))
         IN  NatNextSample([ NatIdle EXCEPT
                 !.countryInfo = countryInfo,
                 !.historicalYear = historicalYear,
                 !.locs = SubSeq(all, 1, Min(SampleLimit, Len(all))) ])

\* ------------------------------------------------- JavaScript arithmetic

(***************************************************************************)
(* The values the arithmetic helpers of src/app.js:824-915 work on: null,  *)
(* undefined, NaN, an exact rational n/d in lowest terms (d > 0), and      *)
(* Infinity with its sign.  Floating-point rounding is not modelled.       *)
(***************************************************************************)
JsNull == [ t |-> "null", n |-> 0, d |-> 1 ]

JsUndefined == [ t |-> "undefined", n |-> 0, d |-> 1 ]

JsNaN == [ t |-> "nan", n |-> 0, d |-> 1 ]

Num(n, d) == [ t |-> "num", n |-> Quot(n, d).n, d |-> Quot(n, d).d ]

Infinity(sign) == [ t |-> "inf", n |-> sign, d |-> 1 ]

\* ToNumber: null is 0, undefined is NaN.
ToNumber(v) ==
    CASE v.t = "null" -> Num(0, 1)
      [] v.t = "undefined" -> JsNaN
      [] OTHER -> v

\* isNaN(v)
isNaN(v) == ToNumber(v).t = "nan"

\* v === 0
IsZero(v) == v.t = "num" /\ v.n = 0

\* v === null || v === undefined
IsNullish(v) == v.t \in { "null", "undefined" }

\* a - b, on finite operands or NaN.
JsSub(a, b) ==
    LET x == ToNumber(a)
        y == ToNumber(b)
    IN  IF x.t = "num" /\ y.t = "num"
        THEN Num(x.n * y.d - y.n * x.d, x.d * y.d)
        ELSE JsNaN

\* a / b: a finite quotient, Infinity for x / 0, NaN for 0 / 0.
JsDiv(a, b) ==
    LET x == ToNumber(a)
        y == ToNumber(b)
    IN  IF x.t # "num" \/ y.t # "num"
        THEN JsNaN
        ELSE IF y.n = 0
        THEN (IF x.n = 0 THEN JsNaN ELSE Infinity(IF x.n > 0 THEN 1 ELSE -1))
        ELSE IF y.n > 0
        THEN Num(x.n * y.d, x.d * y.n)
        ELSE Num(-(x.n * y.d), x.d * (-y.n))

\* a * 100
JsTimes100(a) ==
    LET x == ToNumber(a)
    IN  IF x.t = "num" THEN Num(x.n * 100, x.d) ELSE x

\* a > b: false when either side is NaN.
JsGreater(a, b) ==
    LET x == ToNumber(a)
        y == ToNumber(b)
    IN  /\ x.t # "nan" /\ y.t # "nan"
        /\ IF x.t = "inf" THEN x.n > 0 /\ ~(y.t = "inf" /\ y.n > 0)
           ELSE IF y.t = "inf" THEN y.n < 0
           ELSE x.n * y.d > y.n * x.d

\* ------------------------------------------------------- calculateChange

\* { wasZero: true, current: current }
WasZero(current) == [ t |-> "wasZero", current |-> current ]

\* A slip: no special case for a zero baseline.
calculateChangeMutant(current, historical) ==
    IF IsNullish(historical)
    THEN JsNull
    ELSE JsTimes100(JsDiv(JsSub(current, historical), historical))

\* src/app.js:828-836
calculateChange(current, historical) ==
    IF IsNullish(historical)
    THEN JsNull
    ELSE IF IsZero(historical)
    THEN WasZero(current)
    ELSE JsTimes100(JsDiv(JsSub(current, historical), historical))

\* ---------------------------------------------------------- formatChange

\* x.toFixed(1) of a finite x: the sign and the number of tenths, the tie
\* rounded away from zero.
toFixed1(x) ==
    [ negative |-> x.n < 0, tenths |-> (2 * Abs(x.n) * 10 + x.d) \div (2 * x.d) ]

\* The text of a change: 'N/A', '0%', 'New', or `${sign}${change.toFixed(1)}%`
\* (kind "percent": plus is the '+' sign, fixed the toFixed(1) digits; kinds
\* "NaN%" and "Infinity%" for a change that is not finite).
ChangeText(kind, plus, fixed) == [ kind |-> kind, plus |-> plus, fixed |-> fixed ]

PlainText(kind) == ChangeText(kind, FALSE, [ negative |-> FALSE, tenths |-> 0 ])

Formatted(text, className) == [ text |-> text, className |-> className ]

\* A slip: the polarity argument is ignored.
PolarityMutant(lowerIsBetter, whenLower, whenHigher) == whenHigher

\* lowerIsBetter ? whenLower : whenHigher (src/app.js:863 and 870-876)
Polarity(lowerIsBetter, whenLower, whenHigher) ==
    IF lowerIsBetter THEN whenLower ELSE whenHigher

\* src/app.js:849-878
formatChange(change, lowerIsBetter) ==
    IF change.t = "null"
    THEN Formatted(PlainText("N/A"), "neutral")
    ELSE IF change.t = "wasZero"
    THEN LET current == change.current
         IN  IF IsNullish(current) \/ isNaN(current)
             THEN Formatted(PlainText("N/A"), "neutral")
             ELSE IF IsZero(current)
             THEN Formatted(PlainText("0%"), "neutral")
             ELSE Formatted(PlainText("New"),
                            Polarity(lowerIsBetter, "negative", "positive"))
    ELSE LET plus == JsGreater(change, Num(0, 1))
             minus == JsGreater(Num(0, 1), change)
             className ==
                 IF plus THEN Polarity(lowerIsBetter, "negative", "positive")
                 ELSE IF minus THEN Polarity(lowerIsBetter, "positive", "negative")
                 ELSE "neutral"
         IN  IF change.t = "num"
             THEN Formatted(ChangeText("percent", plus, toFixed1(change)), className)
             ELSE Formatted(PlainText(IF change.t = "nan" THEN "NaN%"
                                                          ELSE "Infinity%"),
                            className)

\* -------------------------------------------------------- calculateDelta

\* A slip: no guard against a zero average.
calculateDeltaMutant(locationValue, averageValue) ==
    IF IsNullish(locationValue) \/ IsNullish(averageValue)
       \/ isNaN(locationValue) \/ isNaN(averageValue)
    THEN JsNull
    ELSE JsTimes100(JsDiv(JsSub(locationValue, averageValue), averageValue))

\* src/app.js:882-889
calculateDelta(locationValue, averageValue) ==
    IF IsNullish(locationValue) \/ IsNullish(averageValue)
       \/ isNaN(locationValue) \/ isNaN(averageValue) \/ IsZero(averageValue)
    THEN JsNull
    ELSE JsTimes100(JsDiv(JsSub(locationValue, averageValue), averageValue))

\* --------------------------------------------------- getNationalAvgClass

\* A slip: the two labels are exchanged.
getNationalAvgClassMutant(locationValue, nationalValue) ==
    IF IsNullish(locationValue) \/ IsNullish(nationalValue)
       \/ isNaN(locationValue) \/ isNaN(nationalValue)
    THEN "neutral"
    ELSE IF JsGreater(nationalValue, locationValue) THEN "better"
    ELSE IF JsGreater(locationValue, nationalValue) THEN "worse"
    ELSE "neutral"

\* src/app.js:902-915
getNationalAvgClass(locationValue, nationalValue) ==
    IF IsNullish(locationValue) \/ IsNullish(nationalValue)
       \/ isNaN(locationValue) \/ isNaN(nationalValue)
    THEN "neutral"
    ELSE IF JsGreater(nationalValue, locationValue) THEN "worse"
    ELSE IF JsGreater(locationValue, nationalValue) THEN "better"
    ELSE "neutral"

\* ------------------------------------------------------------- rendering

\* A fetched value and a mean as JavaScript values.
ReadingValue(x) == IF x = NULL THEN JsNull ELSE Num(Val(x), 1)

MeanValue(x) == IF x = NULL THEN JsNull ELSE Num(Val(x).n, Val(x).d)

\* The eight numeric fields of a Reading, and of an aggregate, as JavaScript
\* values.
JsReading(aq) == [ f \in FieldSet |-> ReadingValue(aq[f]) ]

JsAggregate(avg) == [ f \in FieldSet |-> MeanValue(avg[f]) ]

\* a ?? b
Coalesce(a, b) == IF IsNullish(a) THEN b ELSE a

\* A slip: the European index is preferred.
GenericAqiMutant(aq) == Coalesce(Coalesce(aq.european_aqi, aq.us_aqi), JsNull)

\* aq.us_aqi ?? aq.european_aqi ?? null (src/app.js:1155, 1157, 944-945,
\* 1026-1027)
GenericAqi(aq) == Coalesce(Coalesce(aq.us_aqi, aq.european_aqi), JsNull)

\* Math.round(x) of a finite x: the nearest integer, a tie rounded up.
MathRound(x) == Num((2 * x.n + x.d) \div (2 * x.d), 1)

\* x.toFixed(0) of a finite x: the sign and the digits, a tie rounded away
\* from zero.
toFixed0(x) ==
    [ negative |-> x.n < 0, tenths |-> 10 * ((2 * Abs(x.n) + x.d) \div (2 * x.d)) ]

\* formatValue(value) of displayComparison and of displayNationalAverage:
\* the text missing ('N/A' or '—') for null, undefined and NaN, else the
\* rounded number.
formatValue(value, missing) ==
    IF IsNullish(value) \/ isNaN(value)
    THEN [ kind |-> missing, n |-> 0 ]
    ELSE [ kind |-> "number", n |-> MathRound(value).n ]

\* One row of displayComparison (src/app.js:1155-1171 and the six blocks
\* after it): the two values shown, the text and the class of the change.
ComparisonRow(todayValue, historicalValue) ==
    LET today == IF todayValue.t # "null" THEN MathRound(todayValue) ELSE Num(0, 1)
        historical == IF historicalValue.t # "null"
                      THEN MathRound(historicalValue) ELSE JsNull
        change == IF historical.t # "null"
                  THEN calculateChange(today, historical) ELSE JsNull
        changeFormatted == formatChange(change, TRUE)
        shown == change.t # "null" /\ todayValue.t # "null"
    IN  [ today |-> formatValue(todayValue, "N/A"),
          historical |-> formatValue(historicalValue, "N/A"),
          change |-> IF shown THEN changeFormatted.text ELSE PlainText("N/A"),
          className |-> IF shown THEN changeFormatted.className ELSE "neutral" ]

\* The rows of the page, by the field they show; "aqi" is the generic AQI.
RowNames ==
    { "aqi", "pm25", "pm10", "carbon_monoxide", "nitrogen_dioxide", "ozone",
      "sulphur_dioxide" }

\* The value of a row in a reading.
RowValue(aq, row) == IF row = "aqi" THEN GenericAqi(aq) ELSE Coalesce(aq[row], JsNull)

\* displayComparison(currentAQ, historicalAQ, actualYear, dataSource),
\* src/app.js:1105-1286: what it writes into the page.  The historical
\* cells are the elements named after actualYear.
displayComparison(currentAQ, historicalAQ, actualYear, dataSource) ==
    [ dataSource |-> dataSource,
      year |-> actualYear,
      rows |-> [ row \in RowNames |->
                   ComparisonRow(RowValue(currentAQ, row),
                                 RowValue(historicalAQ, row)) ] ]

\* formatDelta(delta): '' for null, else `(${sign}${delta.toFixed(0)}% vs
\* national)`.
formatDelta(delta) ==
    IF delta.t = "null"
    THEN ChangeText("", FALSE, [ negative |-> FALSE, tenths |-> 0 ])
    ELSE ChangeText("vs national", JsGreater(delta, Num(0, 1)), toFixed0(delta))

\* One cell group of displayNationalAverage (src/app.js:941-952 and the
\* blocks after it): the national value, its class and the delta text.
NationalRow(locationValue, nationalValue) ==
    [ value |-> formatValue(nationalValue, "dash"),
      className |-> getNationalAvgClass(locationValue, nationalValue),
      delta |-> formatDelta(calculateDelta(locationValue, nationalValue)) ]

\* One column of displayNationalAverage (src/app.js:940-1019 or 1022-1101),
\* given the aggregate and the location's reading.
NationalColumn(avg, aq) ==
    [ row \in RowNames |-> NationalRow(RowValue(aq, row), RowValue(avg, row)) ]

\* -------------------------------------------------------------- the state

\* The number of fetchAndDisplayAQ activations the model holds.
MaxReq == 2

Requests == 1 .. MaxReq

VARIABLES
    req,    \* req[r]: the activation record of the r-th fetchAndDisplayAQ call
    nat,    \* nat[r]: the getNationalAverage call made by request r
    dom,    \* the page: the elements the script writes
    call    \* one call of a pure function: its arguments and its result

vars == << req, nat, dom, call >>

\* pc is "idle" before the call, the name of the pending await while the
\* function is suspended ("geocode", "countryInfo", "current", "histPrimary",
\* "histFallback"), "done" after line 87 and "failed" after the catch block.
\* Five fields record the past: currentResp is the upstream response the
\* current fetch got, primary and fallback are what the two historical fetches
\* returned, shown holds the arguments of the displayComparison call and log
\* the air-quality fetches issued and completed, in order.
ReqIdle ==
    [ pc |-> "idle", latitude |-> 0, longitude |-> 0, locationName |-> NULL,
      geocodeResult |-> NULL, countryInfo |-> NULL, currentAQ |-> NULL,
      historicalAQ |-> NULL, actualYear |-> 0, thenRan |-> FALSE,
      currentResp |-> NULL, primary |-> NULL, fallback |-> NULL,
      shown |-> NULL, log |-> << >> ]

Displays == { "block", "none" }

\* ------------------------------------------------------ fetchAndDisplayAQ

\* Object.entries(aq).filter(([key]) => key !== 'dataSource')
\*     .map(([, value]) => value).every(v => v === null)
EveryValueNull(aq) == \A f \in FieldSet : aq[f] = NULL

\* A slip: only the headline AQI fields are looked at.
NeedsFallbackMutant(historicalAQ) ==
    historicalAQ.us_aqi = NULL /\ historicalAQ.european_aqi = NULL

\* if (!historicalAQ || historicalValues.every(v => v === null)), src/app.js:50
NeedsFallback(historicalAQ) == EveryValueNull(historicalAQ)

\* A slip: the fallback year is reported whenever the fallback was fetched.
FallbackYearUsedMutant(fallbackAQ) == TRUE

\* if (historicalAQ && fallbackValues.some(v => v !== null)), src/app.js:56
FallbackYearUsed(fallbackAQ) == \E f \in FieldSet : fallbackAQ[f] # NULL

ReqIssue(q, pc, mode, year) ==
    [ q EXCEPT !.pc = pc,
               !.log = Append(q.log, FetchEvent("issue", mode, year)) ]

ReqDone(q, mode, year) ==
    [ q EXCEPT !.log = Append(q.log, FetchEvent("done", mode, year)) ]

\* const countryInfo = geocodeResult ? {name, code} : ..., src/app.js:34-37
CountryOf(geocodeResult) ==
    IF geocodeResult = NULL
    THEN NULL
    ELSE Some([ name |-> Val(geocodeResult).country,
                code |-> Val(geocodeResult).countryCode ])

\* The catch block, src/app.js:89-95.
CatchDom(d, message) ==
    [ d EXCEPT !.loading = "none", !.error = "block", !.errorMessage = message ]

\* Lines 14-28: show the loading indicator, call reverseGeocode.  dom.latest
\* records the request started last.
StartRequest(r, latitude, longitude, locationName) ==
    /\ req[r].pc = "idle"
    /\ req' = [ req EXCEPT ![r] = [ ReqIdle EXCEPT !.pc = "geocode",
                                        !.latitude = latitude,
                                        !.longitude = longitude,
                                        !.locationName = locationName ] ]
    /\ dom' = [ dom EXCEPT !.loading = "block", !.error = "none",
                           !.content = "none", !.latest = r ]
    /\ UNCHANGED << nat, call >>

\* Lines 24-40: reverseGeocode returned g.  The location text is the name or,
\* without one, the formatted coordinates (<< "coordinates" >>).
GeocodeDone(r, g) ==
    /\ req[r].pc = "geocode"
    /\ LET q == req[r]
           name == IF q.locationName = NULL
                   THEN (IF g = NULL THEN NULL ELSE Some(Val(g).displayName))
                   ELSE q.locationName
           q1 == [ q EXCEPT !.geocodeResult = g, !.locationName = name,
                            !.countryInfo = CountryOf(g) ]
       IN  /\ req' = [ req EXCEPT ![r] =
                         IF g # NULL
                         THEN ReqIssue(q1, "current", "current", 0)
                         ELSE [ q1 EXCEPT !.pc = "countryInfo" ] ]
           /\ dom' = [ dom EXCEPT !.locationText =
                         IF name # NULL THEN Val(name) ELSE << "coordinates" >> ]
    /\ UNCHANGED << nat, call >>

\* Lines 37-40: getCountryInfo's own reverseGeocode returned g.
CountryInfoDone(r, g) ==
    /\ req[r].pc = "countryInfo"
    /\ req' = [ req EXCEPT ![r] =
                  ReqIssue([ req[r] EXCEPT !.countryInfo = CountryOf(g) ],
                           "current", "current", 0) ]
    /\ UNCHANGED << nat, dom, call >>

\* The catch block runs: the request ends in the error state.
Fail(r, q, message) ==
    /\ req' = [ req EXCEPT ![r] = [ q EXCEPT !.pc = "failed" ] ]
    /\ dom' = CatchDom(dom, message)
    /\ UNCHANGED << nat, call >>

\* Lines 40-43: the current fetch completed.
CurrentDone(r, resp) ==
    /\ req[r].pc = "current"
    /\ LET q == [ ReqDone(req[r], "current", 0) EXCEPT !.currentResp = Some(resp) ]
           res == fetchAirQuality(q.latitude, q.longitude, "current", resp)
       IN  IF res.threw
           THEN Fail(r, q, res.message)
           ELSE /\ req' = [ req EXCEPT ![r] =
                              ReqIssue([ q EXCEPT !.currentAQ = res.value ],
                                       "histPrimary", "historical", HISTORICAL_YEAR) ]
                /\ UNCHANGED << nat, dom, call >>

\* Lines 61-87: displayComparison, the national label, the call of
\* getNationalAverage and the content panel.  dom.comparison is what
\* displayComparison was given to render and what it wrote (rendered), and
\* dom.owner the request that rendered it.
ShowComparison(r, q) ==
    LET shown == [ currentAQ |-> Val(q.currentAQ),
                   historicalAQ |-> Val(q.historicalAQ),
                   actualYear |-> q.actualYear,
                   dataSource |-> Val(q.currentAQ).dataSource,
                   rendered |-> displayComparison(JsReading(Val(q.currentAQ)),
                                                  JsReading(Val(q.historicalAQ)),
                                                  q.actualYear,
                                                  Val(q.currentAQ).dataSource) ]
        d1 == [ dom EXCEPT !.comparison = Some(shown), !.owner = r ]
        d2 == IF q.countryInfo # NULL
              THEN [ d1 EXCEPT !.nationalLabel = Val(q.countryInfo).name ]
              ELSE d1
    IN  /\ req' = [ req EXCEPT ![r] = [ q EXCEPT !.pc = "done",
                                                 !.shown = Some(shown) ] ]
        /\ nat' = [ nat EXCEPT ![r] =
                      IF q.countryInfo # NULL
                      THEN getNationalAverage(q.countryInfo, q.actualYear)
                      ELSE nat[r] ]
        /\ dom' = [ d2 EXCEPT !.loading = "none", !.content = "block" ]
        /\ UNCHANGED call

\* Lines 43-62: the primary-year fetch completed.
PrimaryDone(r, resp) ==
    /\ req[r].pc = "histPrimary"
    /\ LET q == ReqDone(req[r], "historical", HISTORICAL_YEAR)
           res == fetchAirQuality(q.latitude, q.longitude, "historical", resp)
           q1 == [ q EXCEPT !.historicalAQ = res.value, !.primary = res.value,
                            !.actualYear = HISTORICAL_YEAR ]
       IN  IF res.threw
           THEN Fail(r, q, res.message)
           ELSE IF NeedsFallback(Val(res.value))
                THEN /\ req' = [ req EXCEPT ![r] =
                                   ReqIssue(q1, "histFallback", "historical",
                                            FALLBACK_YEAR) ]
                     /\ UNCHANGED << nat, dom, call >>
                ELSE ShowComparison(r, q1)

\* A slip: a failed fallback fetch is swallowed and the primary-year reading
\* is displayed.
FallbackDoneMutant(r, resp) ==
    /\ req[r].pc = "histFallback"
    /\ LET q == ReqDone(req[r], "historical", FALLBACK_YEAR)
           res == fetchAirQuality(q.latitude, q.longitude, "historical", resp)
       IN  IF res.threw
           THEN ShowComparison(r, q)
           ELSE ShowComparison(r,
                    [ q EXCEPT !.historicalAQ = res.value,
                               !.fallback = res.value,
                               !.actualYear = IF FallbackYearUsed(Val(res.value))
                                              THEN FALLBACK_YEAR
                                              ELSE q.actualYear ])

\* Lines 52-62: the fallback-year fetch completed.
FallbackDone(r, resp) ==
    /\ req[r].pc = "histFallback"
    /\ LET q == ReqDone(req[r], "historical", FALLBACK_YEAR)
           res == fetchAirQuality(q.latitude, q.longitude, "historical", resp)
       IN  IF res.threw
           THEN Fail(r, q, res.message)
           ELSE ShowComparison(r,
                    [ q EXCEPT !.historicalAQ = res.value,
                               !.fallback = res.value,
                               !.actualYear = IF FallbackYearUsed(Val(res.value))
                                              THEN FALLBACK_YEAR
                                              ELSE q.actualYear ])

\* A pending sample fetch of request r's getNationalAverage completed.
SampleFetchDone(r, resp) ==
    /\ nat[r].pc \in { "awaitCurrent", "awaitHistorical", "awaitFallback" }
    /\ nat' = [ nat EXCEPT ![r] = NatResume(nat[r], resp) ]
    /\ UNCHANGED << req, dom, call >>

\* displayNationalAverage called by request r (src/app.js:918-1102): the
\* label, then each column whose aggregate exists.  A column of dom.national
\* holds what was rendered into it: the aggregate, the location's reading the
\* classes and deltas are computed against, and the request that wrote it.
displayNationalAverage(d, r, currentAvg, historicalAvg, countryName, currentAQ, historicalAQ) ==
    IF countryName = ""
    THEN d
    ELSE LET column(avg, aq) ==
                 Some([ avg |-> Val(avg), location |-> aq, by |-> r,
                        cells |-> NationalColumn(JsAggregate(Val(avg)), JsReading(aq)) ])
         IN  [ d EXCEPT
                 !.nationalLabel = countryName,
                 !.national =
                     [ historical |-> IF historicalAvg # NULL
                                      THEN column(historicalAvg, historicalAQ)
                                      ELSE d.national.historical,
                       today |-> IF currentAvg # NULL
                                 THEN column(currentAvg, currentAQ)
                                 ELSE d.national.today ] ]

\* A slip: a null result is surfaced as a request error.
NationalCallbackMutant(d, r, q, avgs) ==
    IF avgs # NULL
    THEN displayNationalAverage(d, r, Val(avgs).current, Val(avgs).historical,
                                Val(q.countryInfo).name, Val(q.currentAQ),
                                Val(q.historicalAQ))
    ELSE CatchDom(d, "Failed to get national average")

\* avgs => { if (avgs) displayNationalAverage(...) }, src/app.js:73-79, with
\* the countryInfo, currentAQ and historicalAQ its closure captured.
NationalCallback(d, r, q, avgs) ==
    IF avgs # NULL
    THEN displayNationalAverage(d, r, Val(avgs).current, Val(avgs).historical,
                                Val(q.countryInfo).name, Val(q.currentAQ),
                                Val(q.historicalAQ))
    ELSE d

\* Lines 73-81: the getNationalAverage promise of request r has settled and
\* its then-callback, or its catch-callback (a console.warn), runs.
NationalThen(r) ==
    /\ nat[r].pc \in { "resolved", "rejected" }
    /\ req[r].pc = "done"
    /\ ~req[r].thenRan
    /\ req' = [ req EXCEPT ![r].thenRan = TRUE ]
    /\ dom' = IF nat[r].pc = "resolved"
              THEN NationalCallback(dom, r, req[r], nat[r].result)
              ELSE dom
    /\ UNCHANGED << nat, call >>

\* -------------------------------------------------------------- the inputs

Data(current, hourly, station) ==
    [ current |-> current, hourly |-> hourly, station |-> station ]

EmptyData == Data(NULL, NULL, "")

Resp(data) == [ net |-> TRUE, ok |-> TRUE, data |-> data ]

\* fetch() rejected.
NetError == [ net |-> FALSE, ok |-> FALSE, data |-> EmptyData ]

\* A non-success HTTP status.
HttpError == [ net |-> TRUE, ok |-> FALSE, data |-> EmptyData ]

\* An hourly object of one hour in which only the series k has a value.
OnlyField(k) == ("time" :> << Some(0) >>) @@ (k :> << Some(7) >>)

\* A current slot holding pm2_5 = p and us_aqi = 50.
CurPm(p) == [ time |-> Some(0), pm2_5 |-> Some(p), us_aqi |-> Some(50) ]

\* What the upstream may answer to a fetch of the page's own coordinates.
PointResponses(mode) ==
    IF mode = "current"
    THEN { HttpError,
           Resp(EmptyData),
           Resp(Data(Some(<< >>), Some([ time |-> << >> ]), "")),
           Resp(Data(Some([ time |-> Some(0), pm2_5 |-> Some(35), us_aqi |-> Some(80) ]),
                     NULL, "")),
           Resp(Data(NULL,
                     Some([ time |-> << Some(0), Some(1) >>,
                            european_aqi |-> << Some(30), Some(40) >> ]),
                     "Station 7")) }
    ELSE { NetError,
           HttpError,
           Resp(EmptyData),
           Resp(Data(NULL, NULL, "Station 7")),
           Resp(Data(NULL, Some([ time |-> << Some(0) >>, pm2_5 |-> << NULL >>,
                                  us_aqi |-> << NULL >> ]), "")),
           Resp(Data(NULL, Some([ time |-> << Some(0), Some(1) >>,
                                  pm2_5 |-> << Some(20), Some(21) >>,
                                  us_aqi |-> << Some(60), Some(61) >> ]), "")) }
         \cup { Resp(Data(NULL, Some(OnlyField(ApiKey(f))), "")) : f \in FieldSet }

\* The answers to the current fetch and to a historical fetch of a request.
CurrentResponses == PointResponses("current")

HistoricalResponses == PointResponses("historical")

\* What the upstream may answer to a fetch of a sample location.
SampleResponses(mode) ==
    IF mode = "current"
    THEN { HttpError,
           Resp(Data(Some(CurPm(10)), NULL, "")),
           Resp(Data(Some(CurPm(20)), NULL, "")),
           Resp(Data(Some(CurPm(30)), NULL, "")),
           Resp(Data(Some([ time |-> Some(0), european_aqi |-> Some(40) ]), NULL, "")),
           Resp(Data(Some([ time |-> Some(0), us_aqi |-> Some(0) ]), NULL, "")) }
    ELSE { NetError,
           Resp(EmptyData),
           Resp(Data(NULL, Some([ time |-> << Some(0), Some(1) >>,
                                  pm2_5 |-> << Some(20), Some(21) >>,
                                  us_aqi |-> << Some(60), Some(61) >> ]), "")),
           Resp(Data(NULL, Some([ time |-> << Some(0) >>,
                                  us_aqi |-> << Some(0) >> ]), "")) }

\* ---------------------------------------------------------- reverseGeocode

Address(city, country, country_code) ==
    [ city |-> city, country |-> country, country_code |-> country_code ]

\* country_code?.toUpperCase(), on the codes the inputs hold.
toUpperCase(str) ==
    CASE str = "sg" -> "SG"
      [] str = "xx" -> "XX"
      [] OTHER -> str

\* reverseGeocode(lat, lon) when Nominatim answers ans: NULL when the request
\* failed or the answer has no address (src/app.js:184-214).  A display name
\* is the sequence of the strings it is made of: `${city}, ${country}` is
\* << city, country >>.
reverseGeocode(ans) ==
    IF ans = NULL
    THEN NULL
    ELSE LET a == Val(ans)
         IN  IF a.city # "" /\ a.country # ""
             THEN Some([ displayName |-> << a.city, a.country >>, city |-> a.city,
                         country |-> a.country, countryCode |-> toUpperCase(a.country_code) ])
             ELSE IF a.country # ""
                  THEN Some([ displayName |-> << a.country >>, city |-> "",
                              country |-> a.country, countryCode |-> toUpperCase(a.country_code) ])
                  ELSE NULL

\* What Nominatim may answer: nothing, a city of a country the table holds,
\* a country the table does not hold, an address without a country.
GeoAnswers ==
    { NULL,
      Some(Address("Singapore", "Singapore", "sg")),
      Some(Address("", "Atlantis", "xx")),
      Some(Address("Null Island", "", "")) }

\* What reverseGeocode may return: its result on every answer of GeoAnswers.
GeocodeResults == { reverseGeocode(ans) : ans \in GeoAnswers }

\* The coordinates a request is started with: Budapest and Singapore.
Places == { Loc(474979, 190402), Loc(13521, 1038198) }

\* The locationName argument: absent (geolocation) or the searched name.
Names == { NULL, Some(<< "searched place" >>) }

\* The arguments getNationalAverage is called with when called on its own.
CountryInputs ==
    { NULL,
      Some([ name |-> "", code |-> "HU" ]),
      Some([ name |-> "Atlantis", code |-> "XX" ]),
      Some([ name |-> "Singapore", code |-> "SG" ]),
      Some([ name |-> "USA", code |-> "" ]) }

\* What the upstream may answer to any air-quality fetch: the answers above,
\* payloads that mix a current slot with hourly series, series with a null
\* hour or fewer hours than the time axis, and an error status with a body.
FetchResponses ==
    PointResponses("current") \cup PointResponses("historical")
    \cup SampleResponses("current") \cup SampleResponses("historical")
    \cup { Resp(Data(Some(<< >>), NULL, "")),
           Resp(Data(Some(<< >>), Some([ time |-> << >> ]), "Station 7")),
           Resp(Data(NULL, Some([ pm2_5 |-> << Some(5) >> ]), "")),
           Resp(Data(Some([ time |-> Some(0) ]), NULL, "")),
           Resp(Data(Some(CurPm(9)), NULL, "Station 7")),
           Resp(Data(Some([ time |-> Some(0), pm2_5 |-> NULL, pm10 |-> Some(8) ]),
                     Some([ time |-> << Some(0), Some(1), Some(2) >>,
                            pm2_5 |-> << Some(1), Some(2), Some(3) >>,
                            pm10 |-> << Some(4), Some(5), Some(6) >>,
                            ozone |-> << Some(9), NULL >> ]), "")),
           Resp(Data(NULL, Some([ time |-> << Some(0), Some(1) >>,
                                  pm2_5 |-> << NULL, Some(12) >>,
                                  ozone |-> << Some(3), NULL >> ]), "")),
           Resp(Data(Some([ time |-> Some(0), pm2_5 |-> Some(0) ]),
                     Some([ time |-> << Some(0) >>, pm2_5 |-> << Some(4) >> ]), "")),
           [ net |-> TRUE, ok |-> FALSE,
             data |-> Data(Some(CurPm(10)),
                           Some([ time |-> << Some(0) >>, pm2_5 |-> << Some(4) >> ]),
                           "") ] }

\* Coordinates in each box of inferDataSource: Budapest, New York, Honolulu,
\* Singapore.
FetchPlaces ==
    { Loc(474979, 190402), Loc(407128, -740060), Loc(213069, -1578583),
      Loc(13521, 1038198),
      Loc(Deg(35), Deg(-10)), Loc(Deg(71), Deg(40)),
      Loc(Deg(35) - 1, Deg(0)), Loc(Deg(71) + 1, Deg(0)),
      Loc(Deg(50), Deg(-10) - 1), Loc(Deg(50), Deg(40) + 1),
      Loc(Deg(18), Deg(-66)), Loc(Deg(18) - 1, Deg(-66)),
      Loc(Deg(50), Deg(-66) + 1), Loc(Deg(84), Deg(-52)),
      Loc(Deg(84) + 1, Deg(-100)), Loc(Deg(50), Deg(-52) + 1),
      Loc(Deg(14), Deg(-86)), Loc(Deg(14) - 1, Deg(-100)),
      Loc(Deg(15), Deg(-86) + 1), Loc(Deg(75), Deg(-150)) }

\* ------------------------------------------------------ the specifications

\* call before any pure function has been called, and a call of
\* fetchAirQuality: its arguments, the upstream response, its outcome (NULL
\* until the call has run).
NoCall ==
    [ latitude |-> 0, longitude |-> 0, mode |-> "", resp |-> NetError, out |-> NULL ]

FetchCall(latitude, longitude, mode, resp) ==
    [ latitude |-> latitude, longitude |-> longitude, mode |-> mode,
      resp |-> resp, out |-> NULL ]

DomInit(loading, error, content) ==
    [ loading |-> loading, error |-> error, content |-> content,
      locationText |-> << >>, errorMessage |-> "", nationalLabel |-> "",
      comparison |-> NULL, owner |-> 0,
      national |-> [ historical |-> NULL, today |-> NULL ], latest |-> 0 ]

\* The page as loaded: the script has not run; the panels are as the markup
\* leaves them.
Init ==
    /\ req = [ r \in Requests |-> ReqIdle ]
    /\ nat = [ r \in Requests |-> NatIdle ]
    /\ call = NoCall
    /\ \E l \in Displays, e \in Displays, c \in Displays : dom = DomInit(l, e, c)

NatPendingMode(n) == IF n.pc = "awaitCurrent" THEN "current" ELSE "historical"

\* One comparison request, from its start to the end of its national averaging.
Next ==
    \/ \E p \in Places, name \in Names : StartRequest(1, p.lat, p.lon, name)
    \/ \E g \in GeocodeResults : GeocodeDone(1, g)
    \/ \E g \in GeocodeResults : CountryInfoDone(1, g)
    \/ \E resp \in CurrentResponses : CurrentDone(1, resp)
    \/ \E resp \in HistoricalResponses : PrimaryDone(1, resp)
    \/ \E resp \in HistoricalResponses : FallbackDone(1, resp)
    \/ \E resp \in SampleResponses(NatPendingMode(nat[1])) : SampleFetchDone(1, resp)
    \/ NationalThen(1)

Spec == Init /\ [][Next]_vars

\* getNationalAverage called on its own, with every argument of CountryInputs
\* and the default historicalYear (src/app.js:230).
InitNat ==
    /\ req = [ r \in Requests |-> ReqIdle ]
    /\ nat = [ r \in Requests |-> NatIdle ]
    /\ dom = DomInit("block", "none", "none")
    /\ call = NoCall

CallNationalAverage(r, countryInfo) ==
    /\ nat[r].pc = "idle"
    /\ nat' = [ nat EXCEPT ![r] = getNationalAverage(countryInfo, HISTORICAL_YEAR) ]
    /\ UNCHANGED << req, dom, call >>

NextNat ==
    \/ \E countryInfo \in CountryInputs : CallNationalAverage(1, countryInfo)
    \/ \E resp \in SampleResponses(NatPendingMode(nat[1])) : SampleFetchDone(1, resp)

SpecNat == InitNat /\ [][NextNat]_vars

\* The steps of request 1 that its own comparison needs: the start, the
\* reverse geocoding that names a location started from coordinates, and the
\* three air-quality fetches of the location.
PrimarySteps ==
    \/ \E p \in Places, name \in Names : StartRequest(1, p.lat, p.lon, name)
    \/ \E g \in GeocodeResults :
          req[1].locationName = NULL /\ GeocodeDone(1, g)
    \/ \E resp \in CurrentResponses : CurrentDone(1, resp)
    \/ \E resp \in HistoricalResponses : PrimaryDone(1, resp)
    \/ \E resp \in HistoricalResponses : FallbackDone(1, resp)

\* One comparison request whose own steps always complete, while the steps
\* that serve the national comparison only (the reverse geocoding of a
\* searched location, getCountryInfo, the sample fetches) may take for ever.
SpecSlow == Init /\ [][Next]_vars /\ WF_vars(PrimarySteps)

\* Searches for Singapore while several requests are in flight: a current
\* slot, an hourly day or no data at all for the location, one answer per
\* mode for the sample location, and a geocoder that finds Singapore or fails.
ConcPlaces == { Loc(13521, 1038198) }

ConcGeoAnswers == { NULL, Some(Address("Singapore", "Singapore", "sg")) }

ConcResponses(mode) ==
    IF mode = "current"
    THEN { Resp(Data(Some(CurPm(35)), NULL, "")) }
    ELSE { Resp(EmptyData),
           Resp(Data(NULL, Some([ time |-> << Some(0) >>, pm2_5 |-> << Some(20) >>,
                                  us_aqi |-> << Some(60) >> ]), "")) }

ConcCurrentResponses == ConcResponses("current")

ConcHistoricalResponses == ConcResponses("historical")

ConcGeocodeResults == { reverseGeocode(ans) : ans \in ConcGeoAnswers }

ConcSampleResponses(mode) ==
    IF mode = "current"
    THEN { Resp(Data(Some(CurPm(10)), NULL, "")) }
    ELSE { Resp(Data(NULL, Some([ time |-> << Some(0) >>, pm2_5 |-> << Some(20) >>,
                                  us_aqi |-> << Some(60) >> ]), "")) }

\* The click handlers of setupSearchHandlers (src/app.js:1302-1337) start a
\* request whenever the user clicks, also while earlier requests are in
\* flight: every request of Requests may be started and advanced at any time.
NextConc ==
    \E r \in Requests :
        \/ \E p \in ConcPlaces, name \in Names \ { NULL } :
              StartRequest(r, p.lat, p.lon, name)
        \/ \E g \in ConcGeocodeResults : GeocodeDone(r, g)
        \/ \E g \in ConcGeocodeResults : CountryInfoDone(r, g)
        \/ \E resp \in ConcCurrentResponses : CurrentDone(r, resp)
        \/ \E resp \in ConcHistoricalResponses : PrimaryDone(r, resp)
        \/ \E resp \in ConcHistoricalResponses : FallbackDone(r, resp)
        \/ \E resp \in ConcSampleResponses(NatPendingMode(nat[r])) :
              SampleFetchDone(r, resp)
        \/ NationalThen(r)

SpecConc == InitNat /\ [][NextConc]_vars

\* The same requests when the upstream may also refuse the current fetch of
\* a request, so that a request may end in the catch block.
PanelCurrentResponses == ConcCurrentResponses \cup { HttpError }

NextPanels ==
    \E r \in Requests :
        \/ \E p \in ConcPlaces, name \in Names \ { NULL } :
              StartRequest(r, p.lat, p.lon, name)
        \/ \E g \in ConcGeocodeResults : GeocodeDone(r, g)
        \/ \E g \in ConcGeocodeResults : CountryInfoDone(r, g)
        \/ \E resp \in PanelCurrentResponses : CurrentDone(r, resp)
        \/ \E resp \in ConcHistoricalResponses : PrimaryDone(r, resp)
        \/ \E resp \in ConcHistoricalResponses : FallbackDone(r, resp)
        \/ \E resp \in ConcSampleResponses(NatPendingMode(nat[r])) :
              SampleFetchDone(r, resp)
        \/ NationalThen(r)

SpecPanels == InitNat /\ [][NextPanels]_vars

\* The arguments the arithmetic helpers are called with: the three
\* non-numbers, zero, whole readings, a negative number and a mean with a
\* fraction.
CalcValues ==
    { JsNull, JsUndefined, JsNaN, Num(0, 1), Num(5, 1), Num(10, 1), Num(50, 1),
      Num(-5, 1), Num(15, 2) }

\* A call of an arithmetic helper: fn is "" until a helper has been called
\* with the arguments x and y, change holds the result of calculateChange
\* once computed, out the result of the helper called last.
CalcCall(x, y, lowerIsBetter) ==
    [ fn |-> "", x |-> x, y |-> y, lowerIsBetter |-> lowerIsBetter,
      change |-> NULL, out |-> NULL ]

InitCalc ==
    /\ req = [ r \in Requests |-> ReqIdle ]
    /\ nat = [ r \in Requests |-> NatIdle ]
    /\ dom = DomInit("block", "none", "none")
    /\ \E x \in CalcValues, y \in CalcValues, lowerIsBetter \in BOOLEAN :
          call = CalcCall(x, y, lowerIsBetter)

\* calculateChange(x, y)
RunCalculateChange ==
    /\ call.fn = ""
    /\ call' = [ call EXCEPT !.fn = "calculateChange",
                             !.change = Some(calculateChange(call.x, call.y)),
                             !.out = Some(calculateChange(call.x, call.y)) ]
    /\ UNCHANGED << req, nat, dom >>

\* formatChange(change, lowerIsBetter) on the change just computed, as
\* displayComparison chains the two (src/app.js:1159-1160).
RunFormatChange ==
    /\ call.fn = "calculateChange"
    /\ call' = [ call EXCEPT !.fn = "formatChange",
                             !.out = Some(formatChange(Val(call.change),
                                                       call.lowerIsBetter)) ]
    /\ UNCHANGED << req, nat, dom >>

\* calculateDelta(x, y)
RunCalculateDelta ==
    /\ call.fn = ""
    /\ call' = [ call EXCEPT !.fn = "calculateDelta",
                             !.out = Some(calculateDelta(call.x, call.y)) ]
    /\ UNCHANGED << req, nat, dom >>

\* getNationalAvgClass(x, y)
RunGetNationalAvgClass ==
    /\ call.fn = ""
    /\ call' = [ call EXCEPT !.fn = "getNationalAvgClass",
                             !.out = Some(getNationalAvgClass(call.x, call.y)) ]
    /\ UNCHANGED << req, nat, dom >>

NextCalc ==
    \/ RunCalculateChange
    \/ RunFormatChange
    \/ RunCalculateDelta
    \/ RunGetNationalAvgClass

SpecCalc == InitCalc /\ [][NextCalc]_vars

\* The readings the rendering functions are called with: PM2.5 absent, zero,
\* whole or with a fraction (12.4, 12.6, 0.4), a US AQI, a European AQI, both
\* or neither; the other fields absent.
DisplayPm25 ==
    { JsNull, Num(0, 1), Num(20, 1), Num(35, 1), Num(62, 5), Num(63, 5), Num(2, 5) }

DisplayUsAqi == { JsNull, Num(0, 1), Num(60, 1), Num(80, 1) }

DisplayEuropeanAqi == { JsNull, Num(40, 1) }

DisplayReading(pm25, us_aqi, european_aqi) ==
    [ f \in FieldSet |->
        CASE f = "pm25" -> pm25
          [] f = "us_aqi" -> us_aqi
          [] f = "european_aqi" -> european_aqi
          [] OTHER -> JsNull ]

DisplayReadings ==
    { DisplayReading(p, u, e) :
        p \in DisplayPm25, u \in DisplayUsAqi, e \in DisplayEuropeanAqi }

\* A call of a rendering function: its two readings (the location's current
\* reading and its historical reading, or the location's reading and an
\* aggregate) and what it wrote.
DisplayCall(a, b) == [ fn |-> "", a |-> a, b |-> b, out |-> NULL ]

InitDisplay ==
    /\ req = [ r \in Requests |-> ReqIdle ]
    /\ nat = [ r \in Requests |-> NatIdle ]
    /\ dom = DomInit("block", "none", "none")
    /\ \E a \in DisplayReadings, b \in DisplayReadings : call = DisplayCall(a, b)

\* displayComparison(a, b, FALLBACK_YEAR, 'Unknown')
RunDisplayComparison ==
    /\ call.fn = ""
    /\ call' = [ call EXCEPT !.fn = "displayComparison",
                             !.out = Some(displayComparison(call.a, call.b,
                                                            FALLBACK_YEAR, "Unknown")) ]
    /\ UNCHANGED << req, nat, dom >>

\* One column of displayNationalAverage: the location's reading a against
\* the aggregate b.
RunNationalColumn ==
    /\ call.fn = ""
    /\ call' = [ call EXCEPT !.fn = "displayNationalAverage",
                             !.out = Some(NationalColumn(call.b, call.a)) ]
    /\ UNCHANGED << req, nat, dom >>

NextDisplay ==
    \/ RunDisplayComparison
    \/ RunNationalColumn

SpecDisplay == InitDisplay /\ [][NextDisplay]_vars

\* The arguments getCountrySampleLocations is called with: every key of the
\* table, every alias, the empty name and a country the table does not hold;
\* no code, two ISO codes, a code that is also a key of the table.
LookupNames ==
    DOMAIN countrySamples \cup DOMAIN countryNameVariations \cup { "", "Atlantis" }

LookupCodes == { "", "US", "SG", "Hungary" }

LookupCall(countryName, countryCode) ==
    [ fn |-> "", countryName |-> countryName, countryCode |-> countryCode,
      out |-> NULL ]

InitLookup ==
    /\ req = [ r \in Requests |-> ReqIdle ]
    /\ nat = [ r \in Requests |-> NatIdle ]
    /\ dom = DomInit("block", "none", "none")
    /\ \E countryName \in LookupNames, countryCode \in LookupCodes :
          call = LookupCall(countryName, countryCode)

\* getCountrySampleLocations(countryName, countryCode)
RunLookup ==
    /\ call.fn = ""
    /\ call' = [ call EXCEPT
                   !.fn = "getCountrySampleLocations",
                   !.out = Some(getCountrySampleLocations(call.countryName,
                                                          call.countryCode)) ]
    /\ UNCHANGED << req, nat, dom >>

SpecLookup == InitLookup /\ [][RunLookup]_vars

\* fetchAirQuality called on its own, with every response of FetchResponses.
InitFetch ==
    /\ req = [ r \in Requests |-> ReqIdle ]
    /\ nat = [ r \in Requests |-> NatIdle ]
    /\ dom = DomInit("block", "none", "none")
    /\ \E p \in FetchPlaces, mode \in { "current", "historical" },
          resp \in FetchResponses : call = FetchCall(p.lat, p.lon, mode, resp)

RunFetch ==
    /\ call.out = NULL
    /\ call' = [ call EXCEPT !.out =
                   Some(fetchAirQuality(call.latitude, call.longitude,
                                        call.mode, call.resp)) ]
    /\ UNCHANGED << req, nat, dom >>

SpecFetch == InitFetch /\ [][RunFetch]_vars

\* --------------------------------------------------------------- the claims

\* The eight numeric fields of a reading are all null.
EightNull(aq) ==
    /\ aq.pm25 = NULL /\ aq.pm10 = NULL /\ aq.carbon_monoxide = NULL
    /\ aq.nitrogen_dioxide = NULL /\ aq.ozone = NULL /\ aq.sulphur_dioxide = NULL
    /\ aq.european_aqi = NULL /\ aq.us_aqi = NULL

\* The log of request r holds the event e.
Logged(r, e) == \E k \in DOMAIN req[r].log : req[r].log[k] = e

\* C1.  Once fetchAndDisplayAQ has resolved the historical reading (it has
\* called displayComparison), the year handed to displayComparison and to
\* getNationalAverage is FALLBACK_YEAR if and only if the primary-year reading
\* had all eight numeric fields null and the fallback-year reading has a
\* non-null numeric field, and HISTORICAL_YEAR otherwise; with FALLBACK_YEAR
\* the reading handed on is the fallback-year reading.
C1_YearRule ==
    LET q == req[1]
        fallbackUsable == /\ q.primary # NULL /\ EightNull(Val(q.primary))
                          /\ q.fallback # NULL /\ ~EightNull(Val(q.fallback))
    IN  q.pc = "done" =>
          /\ q.shown # NULL
          /\ Val(q.shown).actualYear = q.actualYear
          /\ nat[1].pc # "idle" => nat[1].historicalYear = q.actualYear
          /\ q.actualYear = FALLBACK_YEAR <=> fallbackUsable
          /\ q.actualYear = HISTORICAL_YEAR <=> ~fallbackUsable
          /\ q.actualYear = FALLBACK_YEAR =>
                 Val(q.shown).historicalAQ = Val(q.fallback)

\* C1 witness: a request resolved to the fallback year on a fallback reading
\* with pm25 = 20, its national averaging called with that year.
C1_Witness ==
    /\ req[1].pc = "done"
    /\ req[1].actualYear = FALLBACK_YEAR
    /\ EightNull(Val(req[1].primary))
    /\ Val(req[1].fallback).pm25 = Some(20)
    /\ nat[1].pc # "idle" /\ nat[1].historicalYear = FALLBACK_YEAR

\* C2.  Within one request the fallback-year fetch is issued only after the
\* primary-year fetch has completed, and, once the primary-year fetch has
\* returned, it has been issued if and only if all eight numeric fields of the
\* primary-year reading are null.
C2_FallbackFetch ==
    LET log == req[1].log
        issue == FetchEvent("issue", "historical", FALLBACK_YEAR)
        done == FetchEvent("done", "historical", HISTORICAL_YEAR)
    IN  /\ \A k \in DOMAIN log :
               log[k] = issue => \E j \in 1 .. (k - 1) : log[j] = done
        /\ req[1].primary = NULL => ~Logged(1, issue)
        /\ req[1].primary # NULL =>
               (Logged(1, issue) <=> EightNull(Val(req[1].primary)))

\* C2 witness: a primary-year reading whose only non-null field is ozone has
\* been shown without any fallback fetch.
C2_Witness ==
    /\ req[1].pc = "done"
    /\ Val(req[1].primary).ozone # NULL
    /\ \A f \in FieldSet \ { "ozone" } : Val(req[1].primary)[f] = NULL
    /\ ~Logged(1, FetchEvent("issue", "historical", FALLBACK_YEAR))

\* C3 as claimed.  When the primary-year and the fallback-year reading are
\* both all-null, the reading handed to displayComparison is the primary-year
\* reading, with the primary year.
C3_BothNullKeepsPrimary ==
    LET q == req[1]
    IN  ( /\ q.pc = "done"
          /\ q.primary # NULL /\ EightNull(Val(q.primary))
          /\ q.fallback # NULL /\ EightNull(Val(q.fallback)) ) =>
          /\ Val(q.shown).actualYear = HISTORICAL_YEAR
          /\ Val(q.shown).historicalAQ = Val(q.primary)

\* C4 as claimed.  In getNationalAverage a sample whose primary-year reading
\* has all eight numeric fields null gets a second historical fetch, for
\* FALLBACK_YEAR: when such a reading has just been returned, the function is
\* waiting for that fetch.
C4_SampleFallbackIssued ==
    LET n == nat[1]
    IN  ( /\ n.last.kind = "primary"
          /\ ~n.last.res.threw
          /\ EightNull(Val(n.last.res.value)) ) => n.pc = "awaitFallback"

\* A reading has a non-null US AQI, European AQI or PM2.5.
HasHeadline(aq) == aq.us_aqi # NULL \/ aq.european_aqi # NULL \/ aq.pm25 # NULL

\* C5 as claimed.  A sample reading that getNationalAverage has fetched enters
\* its sample set (current or historical) if and only if its us_aqi, its
\* european_aqi or its pm25 is non-null, whatever the values.
C5_InclusionRule ==
    [][ LET n == nat[1]
            m == nat'[1]
            aq == Val(m.last.res.value)
        IN  /\ (n.pc = "awaitCurrent" /\ ~m.last.res.threw) =>
                   /\ HasHeadline(aq) =>
                          m.currentSamples = Append(n.currentSamples, aq)
                   /\ ~HasHeadline(aq) => m.currentSamples = n.currentSamples
            /\ (n.pc \in { "awaitHistorical", "awaitFallback" }
                /\ ~m.last.res.threw /\ m.pc # "awaitFallback") =>
                   /\ HasHeadline(aq) =>
                          m.historicalSamples = Append(n.historicalSamples, aq)
                   /\ ~HasHeadline(aq) => m.historicalSamples = n.historicalSamples
      ]_vars

\* C6.  Once the country has resolved to a non-empty list of sample locations,
\* getNationalAverage never rejects: a failed sample fetch is caught and the
\* loop goes on to the next location, and the call returns a { current,
\* historical } result after the current fetch of every location was issued.
C6_NeverFails ==
    LET n == nat[1]
    IN  Len(n.locs) > 0 =>
          /\ n.pc # "rejected"
          /\ n.pc = "resolved" => (n.result # NULL /\ n.i = Len(n.locs))
          /\ (n.last.kind # "" /\ n.last.res.threw) =>
                 (n.caught >= 1 /\ n.pc \in { "awaitCurrent", "resolved" })

\* C6 witness: the current fetch of every one of five sample locations failed
\* and the call returned a result all the same.
C6_Witness ==
    /\ nat[1].pc = "resolved"
    /\ Len(nat[1].locs) = SampleLimit
    /\ nat[1].caught = SampleLimit
    /\ nat[1].result = Some([ current |-> NULL, historical |-> NULL ])

RECURSIVE FieldSum(_, _)
FieldSum(samples, f) ==
    IF samples = << >>
    THEN 0
    ELSE (IF Head(samples)[f] = NULL THEN 0 ELSE Val(Head(samples)[f]))
         + FieldSum(Tail(samples), f)

FieldCount(samples, f) == Cardinality({ i \in DOMAIN samples : samples[i][f] # NULL })

\* agg is the aggregate of the sample set: null for an empty set; otherwise
\* each field is null when no sample has a value for it and the mean of the
\* samples' non-null values when some have.
IsMeanOf(agg, samples) ==
    IF Len(samples) = 0
    THEN agg = NULL
    ELSE /\ agg # NULL
         /\ \A f \in FieldSet :
                IF FieldCount(samples, f) = 0
                THEN Val(agg)[f] = NULL
                ELSE /\ Val(agg)[f] # NULL
                     /\ Val(Val(agg)[f]).d > 0
                     /\ Val(Val(agg)[f]).n * FieldCount(samples, f)
                            = FieldSum(samples, f) * Val(Val(agg)[f]).d

\* C7.  Each numeric field of an aggregate returned by getNationalAverage is
\* the arithmetic mean of that field over the included samples in which it is
\* non-null (null when there is none), and the aggregate is null when its
\* sample set is empty.
C7_PerFieldMean ==
    LET n == nat[1]
    IN  (n.pc = "resolved" /\ n.result # NULL) =>
          /\ IsMeanOf(Val(n.result).current, n.currentSamples)
          /\ IsMeanOf(Val(n.result).historical, n.historicalSamples)

\* C7 witness: five sample locations, one failed fetch, the four included
\* current readings with pm25 = 10, 20, 30 and null: aggregate pm25 = 20.
C7_Witness ==
    LET n == nat[1]
    IN  /\ n.pc = "resolved"
        /\ Len(n.locs) = SampleLimit
        /\ n.caught = 1
        /\ [ i \in DOMAIN n.currentSamples |-> n.currentSamples[i].pm25 ]
               = << Some(10), Some(20), Some(30), NULL >>
        /\ Val(Val(n.result).current).pm25 = Some([ n |-> 20, d |-> 1 ])

\* The sample table has no entry for the alias-normalized name, the name or
\* the code.
NoTableEntry(name, code) ==
    LET canonical == IF name \in DOMAIN countryNameVariations
                     THEN countryNameVariations[name]
                     ELSE name
    IN  { canonical, name, code } \cap DOMAIN countrySamples = {}

\* C8.  getNationalAverage returns null, without rejecting and without any
\* air-quality fetch, when the country identity is absent or the sample table
\* has no locations for it.
C8_NullWithoutFetch ==
    LET n == nat[1]
    IN  ( /\ n.pc # "idle"
          /\ \/ n.countryInfo = NULL
             \/ NoTableEntry(Val(n.countryInfo).name, Val(n.countryInfo).code) ) =>
          /\ n.pc = "resolved"
          /\ n.result = NULL
          /\ n.locs = << >> /\ n.i = 0 /\ n.last = NoFetch

\* C8 witness: the call for name "Atlantis", code "XX" has returned null.
C8_Witness ==
    /\ nat[1].countryInfo = Some([ name |-> "Atlantis", code |-> "XX" ])
    /\ nat[1].pc = "resolved"
    /\ nat[1].result = NULL

\* The payload has neither current-slot data nor hourly-series data.
NeitherSlotNorSeries(data) ==
    /\ \/ data.current = NULL
       \/ \A k \in DOMAIN Val(data.current) : FALSE
    /\ \/ data.hourly = NULL
       \/ "time" \notin DOMAIN Val(data.hourly)
       \/ Val(data.hourly)["time"] = << >>

\* C9.  In historical mode a successful upstream response with neither
\* current-slot nor hourly-series data makes fetchAirQuality return a Reading
\* whose eight numeric fields are null and whose dataSource is the label
\* inferDataSource gives for the requested coordinates.
C9_HistoricalNoData ==
    ( /\ call.out # NULL
      /\ call.mode = "historical"
      /\ call.resp.net /\ call.resp.ok
      /\ NeitherSlotNorSeries(call.resp.data) ) =>
      /\ ~Val(call.out).threw
      /\ EightNull(Val(Val(call.out).value))
      /\ Val(Val(call.out).value).dataSource
             = inferDataSource(call.latitude, call.longitude, call.resp.data)

\* C9 witness: a historical call on an empty payload has returned.
C9_Witness ==
    /\ call.mode = "historical"
    /\ call.resp = Resp(EmptyData)
    /\ call.out # NULL
    /\ ~Val(call.out).threw

\* C10.  A current-mode response with neither current-slot nor hourly-series
\* data is fatal to the request: once the current fetch got it, the request
\* has ended with the error panel shown and the loading indicator hidden,
\* displayComparison was not called, and no historical fetch and no national
\* averaging was started.
C10_CurrentNoDataFatal ==
    LET q == req[1]
    IN  ( /\ q.currentResp # NULL
          /\ Val(q.currentResp).net /\ Val(q.currentResp).ok
          /\ NeitherSlotNorSeries(Val(q.currentResp).data) ) =>
          /\ q.pc = "failed"
          /\ dom.error = "block" /\ dom.loading = "none"
          /\ q.shown = NULL /\ dom.comparison = NULL
          /\ \A k \in DOMAIN q.log : q.log[k].mode # "historical"
          /\ nat[1].pc = "idle"

\* C10 witness: a request whose current fetch got an empty payload has failed.
C10_Witness ==
    /\ req[1].currentResp = Some(Resp(EmptyData))
    /\ req[1].pc = "failed"
    /\ dom.error = "block"

\* --------------------------------------------------------- C11, C12, C13

\* C11.  fetchAirQuality fails whenever fetch() resolved with a non-success
\* status, in both modes: the call throws and returns no Reading, whatever
\* the body holds.
C11_HttpErrorThrows ==
    (call.out # NULL /\ call.resp.net /\ ~call.resp.ok)
        => /\ Val(call.out).threw
           /\ Val(call.out).value = NULL
           /\ Val(call.out).message = "API request failed"

\* C11 witness: a historical call answered with a non-success status whose
\* body holds data has thrown.
C11_Witness ==
    /\ call.mode = "historical"
    /\ call.resp.net /\ ~call.resp.ok
    /\ call.resp.data.current # NULL
    /\ call.out # NULL
    /\ Val(call.out).threw

\* The instantaneous value the payload provides for field f (NULL when none).
Instantaneous(data, f) ==
    IF data.current # NULL THEN Get(Val(data.current), ApiKey(f)) ELSE NULL

\* The hourly series of field f: << >> when the payload has none.
HourlySeries(data, f) ==
    IF data.hourly # NULL THEN
        (IF ApiKey(f) \in DOMAIN Val(data.hourly)
         THEN Val(data.hourly)[ApiKey(f)] ELSE << >>)
    ELSE << >>

\* The payload has a non-empty hourly time axis.
HasTimeAxis(data) ==
    /\ data.hourly # NULL
    /\ "time" \in DOMAIN Val(data.hourly)
    /\ Len(Val(data.hourly)["time"]) > 0

\* The call reached the extraction of lines 797-814 and returned a Reading.
Extracted ==
    /\ call.out # NULL
    /\ ~Val(call.out).threw
    /\ ~NoUsableData(call.resp.data)

HasHourlyData(data, f) ==
    \E i \in DOMAIN HourlySeries(data, f) : HourlySeries(data, f)[i] # NULL

\* C13.  A field of a returned Reading is null if and only if the payload has
\* neither an instantaneous value nor hourly-series data for it.
C13_NullIffNoData ==
    (call.out # NULL /\ ~Val(call.out).threw) =>
        \A f \in FieldSet :
            Val(Val(call.out).value)[f] = NULL
                <=> /\ Instantaneous(call.resp.data, f) = NULL
                    /\ ~HasHourlyData(call.resp.data, f)

\* ------------------------------------------------------------------- C14

\* C14.  Once the comparison of a request is rendered, nothing the national
\* averaging does (sample fetches failing, a null result, a result with no
\* aggregate) changes it: the rendered comparison stays, the content panel
\* stays shown, the loading indicator and the error panel stay hidden, and
\* the promise never rejects.
C14_NationalFailureIsolated ==
    req[1].pc = "done" =>
        /\ dom.comparison = req[1].shown
        /\ dom.content = "block"
        /\ dom.error = "none"
        /\ dom.loading = "none"
        /\ dom.errorMessage = ""
        /\ nat[1].pc # "rejected"

\* C14 witness: every sample fetch of the national averaging failed and was
\* caught, the result holds no aggregate, and the callback has run.
C14_Witness ==
    /\ req[1].pc = "done"
    /\ nat[1].pc = "resolved"
    /\ nat[1].caught > 0
    /\ nat[1].result # NULL
    /\ Val(nat[1].result).current = NULL
    /\ Val(nat[1].result).historical = NULL
    /\ req[1].thenRan

\* ------------------------------------------------------------------- C15

\* C15.  A started request renders its comparison (or ends in the error
\* state) even when the steps that serve only the national comparison never
\* complete.
C15_PrimaryNotBlocked ==
    (req[1].pc # "idle") ~> (req[1].pc \in { "done", "failed" })

\* ------------------------------------------------------------------- C16

\* Request r and its background national averaging have finished.
Finished(r) ==
    /\ req[r].pc \in { "done", "failed" }
    /\ nat[r].pc \in { "idle", "resolved", "rejected" }
    /\ nat[r].pc # "idle" => req[r].thenRan

\* Request r rendered the given column of the national comparison.
RenderedColumn(r, col) ==
    /\ req[r].thenRan
    /\ nat[r].result # NULL
    /\ (IF col = "today" THEN Val(nat[r].result).current
                         ELSE Val(nat[r].result).historical) # NULL

\* C16.  Once every request has finished, what the page displays belongs to
\* the request started last: the comparison it rendered is the displayed one,
\* and each national column it rendered still holds its values.
C16_LatestRequestDisplayed ==
    ((\A r \in Requests : Finished(r)) /\ req[dom.latest].pc = "done")
        => /\ dom.owner = dom.latest
           /\ dom.comparison = req[dom.latest].shown
           /\ \A col \in { "today", "historical" } :
                  RenderedColumn(dom.latest, col)
                      => Val(dom.national[col]).by = dom.latest

\* -------------------------------------------------------- C17, C18, C19, C20

\* result = ((a - b) / b) * 100 exactly, for a finite a and a finite b # 0.
IsPercentOf(result, a, b) ==
    /\ result.t = "num"
    /\ result.n * (a.d * b.n) = result.d * 100 * (a.n * b.d - b.n * a.d)

\* C17.  calculateChange(current, historical) is null when historical is null
\* or undefined, the marker {wasZero, current} with the given current when
\* historical is 0, and otherwise the number ((current - historical) /
\* historical) * 100; a zero baseline never gives a number, Infinity or NaN
\* and a missing baseline never gives the marker.
C17_ThreeKinds ==
    call.fn \in { "calculateChange", "formatChange" } =>
        LET current == call.x
            historical == call.y
            change == Val(call.change)
        IN  /\ IsNullish(historical) => change = JsNull
            /\ IsZero(historical) => change = WasZero(current)
            /\ (historical.t = "num" /\ historical.n # 0) =>
                   IF ToNumber(current).t = "num"
                   THEN IsPercentOf(change, ToNumber(current), historical)
                   ELSE change.t = "nan"
            /\ historical.t = "nan" => change.t = "nan"
            /\ change.t # "inf"
            /\ change.t = "wasZero" <=> IsZero(historical)
            /\ change.t = "null" <=> IsNullish(historical)

\* C17 witness: calculateChange(5, 0) returned the marker carrying 5.
C17_Witness ==
    /\ call.fn = "calculateChange"
    /\ call.x = Num(5, 1)
    /\ call.y = Num(0, 1)
    /\ Val(call.out) = WasZero(Num(5, 1))

\* C18.  The class of formatChange(change, lowerIsBetter): neutral for null;
\* for the zero-baseline marker, neutral when its current is null, NaN or 0
\* and otherwise negative when lowerIsBetter and positive when not; for a
\* number, negative above 0 and positive below 0 when lowerIsBetter, the
\* opposite when not, and neutral at exactly 0.
C18_ClassOfChange ==
    call.fn = "formatChange" =>
        LET change == Val(call.change)
            className == Val(call.out).className
            lowerIsBetter == call.lowerIsBetter
        IN  /\ change.t = "null" => className = "neutral"
            /\ change.t = "wasZero" =>
                   IF \/ change.current.t \in { "null", "undefined", "nan" }
                      \/ IsZero(change.current)
                   THEN className = "neutral"
                   ELSE className = (IF lowerIsBetter THEN "negative" ELSE "positive")
            /\ change.t = "num" =>
                   IF change.n > 0
                   THEN className = (IF lowerIsBetter THEN "negative" ELSE "positive")
                   ELSE IF change.n < 0
                   THEN className = (IF lowerIsBetter THEN "positive" ELSE "negative")
                   ELSE className = "neutral"

\* C18 witness: a rise from 5 to 10 was formatted as negative under
\* lowerIsBetter.
C18_Witness ==
    /\ call.fn = "formatChange"
    /\ call.lowerIsBetter
    /\ call.x = Num(10, 1)
    /\ call.y = Num(5, 1)
    /\ Val(call.change) = Num(100, 1)
    /\ Val(call.out).className = "negative"

\* C19.  calculateDelta(locationValue, averageValue) is null when either
\* argument is null, undefined or NaN and when averageValue is 0; in every
\* other case it is ((locationValue - averageValue) / averageValue) * 100.
C19_DeltaRule ==
    call.fn = "calculateDelta" =>
        LET locationValue == call.x
            averageValue == call.y
            delta == Val(call.out)
        IN  IF \/ locationValue.t \in { "null", "undefined", "nan" }
               \/ averageValue.t \in { "null", "undefined", "nan" }
               \/ IsZero(averageValue)
            THEN delta = JsNull
            ELSE IsPercentOf(delta, locationValue, averageValue)

\* C19 witness: calculateDelta(5, 0) returned null.
C19_Witness ==
    /\ call.fn = "calculateDelta"
    /\ call.x = Num(5, 1)
    /\ call.y = Num(0, 1)
    /\ Val(call.out) = JsNull

\* C20.  getNationalAvgClass(locationValue, nationalValue) is 'worse' when
\* the national value is strictly higher, 'better' when it is strictly
\* lower, 'neutral' when they are equal or when either argument is null,
\* undefined or NaN.
C20_NationalClass ==
    call.fn = "getNationalAvgClass" =>
        LET locationValue == call.x
            nationalValue == call.y
            class == Val(call.out)
        IN  IF \/ locationValue.t \in { "null", "undefined", "nan" }
               \/ nationalValue.t \in { "null", "undefined", "nan" }
            THEN class = "neutral"
            ELSE IF nationalValue.n * locationValue.d > locationValue.n * nationalValue.d
            THEN class = "worse"
            ELSE IF nationalValue.n * locationValue.d < locationValue.n * nationalValue.d
            THEN class = "better"
            ELSE class = "neutral"

\* C20 witness: a national mean of 15/2 against a location value of 5 was
\* classed worse.
C20_Witness ==
    /\ call.fn = "getNationalAvgClass"
    /\ call.x = Num(5, 1)
    /\ call.y = Num(15, 2)
    /\ Val(call.out) = "worse"

\* ------------------------------------------------------------------- C21

\* The text and the class displayComparison owes a row whose change is the
\* finite number x: the sign, x to one decimal, and the class of a rise
\* (negative), a fall (positive) or no change (neutral).
PercentShown(row, x) ==
    /\ row.change = ChangeText("percent", x.n > 0, toFixed1(x))
    /\ row.className = (IF x.n > 0 THEN "negative"
                        ELSE IF x.n < 0 THEN "positive" ELSE "neutral")

\* C21.  In the comparison displayComparison renders, every row whose current
\* value c and historical value h are both non-null with h > 0 shows the
\* change (c - h) / h * 100, classed negative when c > h, positive when
\* c < h and neutral when c = h.
C21_ChangeShown ==
    call.fn = "displayComparison" =>
        \A row \in RowNames :
            LET c == RowValue(call.a, row)
                h == RowValue(call.b, row)
            IN  (c.t = "num" /\ h.t = "num" /\ h.n > 0)
                    => PercentShown(Val(call.out).rows[row],
                                    JsTimes100(JsDiv(JsSub(c, h), h)))

\* ------------------------------------------------------------------- C30

\* The US AQI of a reading when it is non-null, otherwise its European AQI.
UsElseEuropean(aq) ==
    IF aq.us_aqi.t # "null" THEN aq.us_aqi ELSE aq.european_aqi

Canonical(name) ==
    CASE name \in { "USA", "US" } -> "United States"
      [] name = "UK" -> "United Kingdom"
      [] name = "UAE" -> "United Arab Emirates"
      [] name = "Czechia" -> "Czech Republic"
      [] name \in { "Korea", "Republic of Korea" } -> "South Korea"
      [] OTHER -> name

\* The key the lookup of (name, code) must match: the first of the
\* alias-normalized name, the raw name and the code that the table holds,
\* "" when none.
MatchedKey(name, code) ==
    IF Canonical(name) \in DOMAIN countrySamples THEN Canonical(name)
    ELSE IF name \in DOMAIN countrySamples THEN name
    ELSE IF code \in DOMAIN countrySamples THEN code
    ELSE ""

C23_ExactlyFive ==
    (call.fn = "getCountrySampleLocations" /\ Val(call.out) # NULL)
        => Len(Val(Val(call.out))) = 5

\* C23 as amended.  Every non-null result of getCountrySampleLocations is a
\* list of exactly 5 coordinates, except the list of Singapore, which holds
\* exactly 1.
C23_FiveOrSingapore ==
    (call.fn = "getCountrySampleLocations" /\ Val(call.out) # NULL)
        => Len(Val(Val(call.out))) =
               IF MatchedKey(call.countryName, call.countryCode) = "Singapore"
               THEN 1 ELSE 5

\* C23 witness: the lookup of Singapore returned its one location.
C23_Witness ==
    /\ call.fn = "getCountrySampleLocations"
    /\ call.countryName = "Singapore"
    /\ Val(call.out) = Some(<< Loc(13521, 1038198) >>)

\* ------------------------------------------------------------------- C24

\* The point lies in the box of latitudes south..north and longitudes
\* west..east, in degrees, borders included.
InBox(lat, lon, south, north, west, east) ==
    /\ Deg(south) <= lat /\ lat <= Deg(north)
    /\ Deg(west) <= lon /\ lon <= Deg(east)

InEurope(lat, lon) == InBox(lat, lon, 35, 71, -10, 40)

InNorthAmerica(lat, lon) ==
    \/ InBox(lat, lon, 18, 72, -180, -66)
    \/ InBox(lat, lon, 18, 22, -161, -154)
    \/ InBox(lat, lon, 41, 84, -141, -52)
    \/ InBox(lat, lon, 14, 33, -118, -86)

\* C24.  The dataSource of every Reading fetchAirQuality returns is a label,
\* never null: the payload's station annotation verbatim when it has one,
\* whatever the coordinates; otherwise the European label inside latitude
\* [35, 71] and longitude [-10, 40]; otherwise the North American label
\* inside the US, Hawaii, Canada or Mexico box; otherwise "CAMS Global
\* Reanalysis".
C24_SourcePrecedence ==
    (call.out # NULL /\ ~Val(call.out).threw) =>
        LET label == Val(Val(call.out).value).dataSource
            station == call.resp.data.station
        IN  /\ label # ""
            /\ label =
                 IF station # "" THEN station
                 ELSE IF InEurope(call.latitude, call.longitude)
                 THEN "CAMS European Air Quality Reanalysis"
                 ELSE IF InNorthAmerica(call.latitude, call.longitude)
                 THEN "CAMS Global (may include NOAA/Environment Canada ground stations)"
                 ELSE "CAMS Global Reanalysis"

\* C24 witness: a Reading fetched on the corner of the Europe box from a
\* payload that names a station carries the station's name.
C24_Witness ==
    /\ call.out # NULL
    /\ ~Val(call.out).threw
    /\ call.latitude = Deg(71) /\ call.longitude = Deg(40)
    /\ call.resp.data.station = "Station 7"
    /\ call.resp.data.current # NULL
    /\ Val(Val(call.out).value).dataSource = "Station 7"

\* ------------------------------------------------------------------- C26

\* C26.  A Reading returned by a current-mode fetchAirQuality call has at
\* least one non-null numeric field: a payload that yields no value for any
\* of the eight fields makes the call fail.
C26_CurrentReadingHasValue ==
    (call.out # NULL /\ call.mode = "current" /\ ~Val(call.out).threw)
        => ~EightNull(Val(Val(call.out).value))

\* -------------------------------------------------------------- C25, C27

\* A sample fetch of the call is pending.
NatPending(n) == n.pc \in { "awaitCurrent", "awaitHistorical", "awaitFallback" }

\* The step ends the work on the sample location n.i: the loop goes on to the
\* next location or the call returns.
NatLeavesSample(n, m) ==
    NatPending(n) /\ (m.i = n.i + 1 \/ m.pc = "resolved")

\* The sample list of the country the call was made for.
NatSampleList(n) ==
    Val(getCountrySampleLocations(Val(n.countryInfo).name, Val(n.countryInfo).code))

\* C25.  getNationalAverage attempts only the first five locations of the
\* country's sample list, one after the other; it leaves a location only in
\* the step in which a fetch issued for it failed (the error is caught) or
\* its historical fetch returned a reading; and it returns its result only
\* when it leaves the last location, so no fetch of the call is pending then.
C25_AllAccounted ==
    [][ LET n == nat[1]
            m == nat'[1]
        IN  /\ m.locs # << >> =>
                 /\ m.locs = SubSeq(NatSampleList(m), 1,
                                    Min(5, Len(NatSampleList(m))))
                 /\ m.i \in 1 .. Len(m.locs)
            /\ m.i # n.i => m.i = n.i + 1
            /\ NatLeavesSample(n, m) =>
                 \/ m.last.res.threw /\ m.caught = n.caught + 1
                 \/ /\ n.pc \in { "awaitHistorical", "awaitFallback" }
                    /\ ~m.last.res.threw /\ m.caught = n.caught
            /\ (NatPending(n) /\ m.pc = "resolved") =>
                 /\ n.i = Len(n.locs)
                 /\ m.result # NULL
                 /\ ~NatPending(m)
            /\ (m.result # NULL /\ n.result = NULL) => NatLeavesSample(n, m)
      ]_vars

\* C25 witness: the call for a country of five locations has returned after
\* one location failed, one returned a reading that was filtered out and
\* three returned readings that were included.
C25_Witness ==
    LET n == nat[1]
    IN  /\ n.pc = "resolved"
        /\ Len(n.locs) = 5
        /\ n.i = 5
        /\ n.caught = 1
        /\ Len(n.currentSamples) = 3
        /\ n.result # NULL

\* C27.  A failure of the current fetch of a sample location is caught: no
\* historical fetch is issued for the location and neither sample set
\* changes.  A failure of the historical fetch of a location is caught by the
\* same handler: the current sample set, which holds the location's current
\* reading when it was included, and the historical sample set stay as they
\* are.  In both cases the loop goes on to the next location or returns.
C27_SharedHandler ==
    [][ LET n == nat[1]
            m == nat'[1]
        IN  (NatPending(n) /\ m # n /\ m.last.res.threw) =>
                /\ m.caught = n.caught + 1
                /\ m.currentSamples = n.currentSamples
                /\ m.historicalSamples = n.historicalSamples
                /\ \/ m.pc = "awaitCurrent" /\ m.i = n.i + 1
                   \/ m.pc = "resolved" /\ n.i = Len(n.locs)
      ]_vars

\* C27 witness: the current fetch of the first location failed; the current
\* fetch of the second returned an included reading and its historical fetch
\* failed: the current set holds that reading, the historical set is empty.
C27_Witness ==
    LET n == nat[1]
    IN  /\ n.last.kind = "primary"
        /\ n.last.res.threw
        /\ n.caught = 2
        /\ n.i = 3
        /\ Len(n.currentSamples) = 1
        /\ n.currentSamples[1].pm25 = Some(10)
        /\ n.historicalSamples = << >>

\* ------------------------------------------------------------------- C28

\* The step completes the fallback-year fetch of the request without a
\* reading: the fetch failed.
FallbackFetchFailed(q, p) ==
    /\ q.pc = "histFallback"
    /\ p.pc # "histFallback"
    /\ p.fallback = NULL

\* C28.  When the fallback-year fetch fails after a current reading and an
\* all-null primary-year reading were fetched, the request ends in the error
\* state: the error panel is shown with the fetch's message and the loading
\* indicator hidden, displayComparison is not called, and getNationalAverage
\* is not called, in that step or later.
C28_FallbackFailureFatal ==
    [][ LET q == req[1]
            p == req'[1]
        IN  /\ FallbackFetchFailed(q, p) =>
                 /\ q.currentAQ # NULL
                 /\ q.primary # NULL /\ EveryValueNull(Val(q.primary))
                 /\ p.pc = "failed"
                 /\ p.shown = NULL
                 /\ dom'.comparison = dom.comparison
                 /\ dom'.error = "block" /\ dom'.loading = "none"
                 /\ dom'.errorMessage \in { "API request failed", "Failed to fetch" }
                 /\ nat'[1] = NatIdle
            /\ q.pc = "failed" =>
                 /\ p = q
                 /\ nat'[1] = nat[1]
                 /\ dom'.comparison = dom.comparison
      ]_vars

\* C28 witness: the fallback fetch was answered with a non-success status
\* after an all-null primary-year reading, and the request has failed.
C28_Witness ==
    LET q == req[1]
    IN  /\ q.pc = "failed"
        /\ q.currentAQ # NULL
        /\ q.primary # NULL /\ EveryValueNull(Val(q.primary))
        /\ q.log[Len(q.log)] = FetchEvent("done", "historical", FALLBACK_YEAR)
        /\ q.shown = NULL
        /\ nat[1] = NatIdle
        /\ dom.error = "block"
        /\ dom.errorMessage = "API request failed"

\* ------------------------------------------------------------------- C29

\* The fetchAndDisplayAQ call of request r has returned.
CallFinished(r) == req[r].pc \in { "done", "failed" }

\* C29.  Whenever no call of fetchAndDisplayAQ is in flight and at least one
\* has finished, the loading indicator is hidden and exactly one of the
\* content panel and the error panel is shown, whatever the interleaving of
\* the requests.
C29_OnePanelWhenQuiet ==
    ( /\ \A r \in Requests : req[r].pc = "idle" \/ CallFinished(r)
      /\ \E r \in Requests : CallFinished(r) ) =>
        /\ dom.loading = "none"
        /\ (dom.content = "block") # (dom.error = "block")

=============================================================================
